---- MODULE Spec2Model ----
(***************************************************************************)
(* A model of the hypertransparency site builder (src/src/builder.py):     *)
(* class HypertransparencyBuilder.  Strings are sequences of one-character *)
(* strings, lists are sequences, dicts with a meaningful key order are     *)
(* sequences of records.  Every stage of the pipeline is an operator       *)
(* computed the way the method computes it; each specification draws the   *)
(* inputs of one stage and applies it.                                     *)
(***************************************************************************)
EXTENDS Integers, Sequences, FiniteSets, TLC

VARIABLES
    pc,             \* position of the builder in the stage under study
    config,         \* self.config
    messages,       \* the message list handed to / built by a stage
    pages,          \* result of paginate_messages
    search_index,   \* result of build_search_index
    artifacts,      \* self.artifacts, the process-wide artifact map
    commits,        \* the commit list (mutated in place by later stages)
    image_versions, \* result of extract_versioned_artifacts, one per run
    env,            \* what the stage reads from outside: file lines, git
    ret,            \* value returned by the call under study
    raised,         \* exception that left the call, "" when none did
    links,          \* the loop positions at each link the correlator records
    sessions,       \* the session descriptors build works from
    images,         \* result of get_images
    manifest,       \* result of generate_manifest
    output          \* the data files written, in the order of writing

vars == <<pc, config, messages, pages, search_index, artifacts, commits,
          image_versions, env, ret, raised, links,
          sessions, images, manifest, output>>

(***************************************************************************)
(* Bounds of the model.                                                    *)
(***************************************************************************)
MaxMsgs == 5
MaxPageSize == 3

(***************************************************************************)
(* Python helpers.                                                         *)
(***************************************************************************)
Min(a, b) == IF a <= b THEN a ELSE b

\* s[a:b] for 0 <= a, 0 <= b
Slice(s, a, b) == SubSeq(s, a + 1, Min(b, Len(s)))

\* s[:n]
Take(s, n) == Slice(s, 0, n)

(***************************************************************************)
(* DEFAULT_CONFIG                                                          *)
(***************************************************************************)
DefaultMessagesPerPage == 100
DefaultTimeWindowMinutes == 5
DefaultToolResultMaxLength == 500

DEFAULT_CONFIG ==
    [messages_per_page |-> DefaultMessagesPerPage,
     show_thinking_preview |-> TRUE,
     tool_result_max_length |-> DefaultToolResultMaxLength,
     image_folders |-> <<"explore", "outputs", "figures">>,
     time_window_minutes |-> DefaultTimeWindowMinutes]

(***************************************************************************)
(* paginate_messages                                                       *)
(***************************************************************************)
PageNum(i, page_size) == i \div page_size + 1

TotalPagesFloor(n, page_size) == n \div page_size

TotalPages(n, page_size) == (n + page_size - 1) \div page_size

PageMessagesOverlap(msgs, page_size, i) == Slice(msgs, i, i + page_size + 1)

PageMessages(msgs, page_size, i) == Slice(msgs, i, i + page_size)

Page(msgs, page_size, i) ==
    LET page_messages == PageMessages(msgs, page_size, i)
    IN  [version |-> "1.0",
         page |-> PageNum(i, page_size),
         totalPages |-> TotalPages(Len(msgs), page_size),
         startIndex |-> i,
         endIndex |-> i + Len(page_messages),
         messages |-> page_messages]

RECURSIVE PaginateFrom(_, _, _)
PaginateFrom(msgs, page_size, i) ==
    IF i >= Len(msgs) THEN <<>>
    ELSE <<Page(msgs, page_size, i)>> \o PaginateFrom(msgs, page_size, i + page_size)

paginate_messages(msgs, cfg) == PaginateFrom(msgs, cfg.messages_per_page, 0)

(***************************************************************************)
(* Specification of the paginator: any message list of up to MaxMsgs       *)
(* messages, or the 3 sessions x 40 messages scenario, and any page size.  *)
(***************************************************************************)
MsgPool == {"m1", "m2"}

ScenarioMessages == 3 * 40

BoundedSeqs(S, n) == UNION {[1..k -> S] : k \in 0..n}

InitPaginate ==
    /\ pc = "start"
    /\ \/ /\ messages \in BoundedSeqs(MsgPool, MaxMsgs)
          /\ \E s \in 1..MaxPageSize : config = [DEFAULT_CONFIG EXCEPT !.messages_per_page = s]
       \/ /\ messages = [k \in 1..ScenarioMessages |-> IF k % 2 = 0 THEN "m1" ELSE "m2"]
          /\ config = DEFAULT_CONFIG
    /\ pages = <<>>
    /\ search_index = <<>> /\ artifacts = <<>> /\ commits = <<>>
    /\ image_versions = <<>> /\ env = <<>> /\ ret = <<>> /\ raised = ""
    /\ links = <<>>
    /\ sessions = <<>> /\ images = <<>> /\ manifest = <<>> /\ output = <<>>

PaginateMessages ==
    /\ pc = "start"
    /\ pages' = paginate_messages(messages, config)
    /\ pc' = "paginated"
    /\ UNCHANGED <<config, messages, search_index, artifacts, commits,
                   image_versions, env, ret, raised, links,
          sessions, images, manifest, output>>

NextPaginate == PaginateMessages

SpecPaginate == InitPaginate /\ [][NextPaginate]_vars

(***************************************************************************)
(* Properties of the paginator.                                            *)
(***************************************************************************)
RECURSIVE ConcatPages(_)
ConcatPages(ps) ==
    IF ps = <<>> THEN <<>> ELSE Head(ps).messages \o ConcatPages(Tail(ps))

\* ceil(n / s) by its defining property, not by the code's arithmetic
CeilDiv(n, s) == CHOOSE q \in 0..n : q * s >= n /\ (q = 0 \/ (q - 1) * s < n)

\* C1: the pages, concatenated in page order, are the input sequence; the
\* first page starts at 0, each page starts where the previous one ended,
\* the last page ends at N, and each page holds exactly the input slice
\* [startIndex, endIndex).
C1_PagesPartitionInput ==
    pc = "paginated" =>
        /\ ConcatPages(pages) = messages
        /\ pages # <<>> =>
            /\ pages[1].startIndex = 0
            /\ pages[Len(pages)].endIndex = Len(messages)
        /\ \A k \in 2..Len(pages) : pages[k].startIndex = pages[k - 1].endIndex
        /\ \A k \in 1..Len(pages) :
            /\ pages[k].startIndex <= pages[k].endIndex
            /\ pages[k].endIndex <= Len(messages)
            /\ pages[k].messages =
                [j \in 1..(pages[k].endIndex - pages[k].startIndex) |->
                    messages[pages[k].startIndex + j]]

C1_Witness ==
    /\ pc = "paginated"
    /\ Len(pages) = 3
    /\ Len(pages[3].messages) < config.messages_per_page
    /\ \E j \in 1..Len(messages) : messages[j] # messages[1]

\* C2: there are exactly ceil(N/S) pages, the k-th page records page = k
\* and totalPages = ceil(N/S), every page but the last holds S messages, no
\* page is empty, and 120 messages with S = 100 give the two pages [0,100)
\* and [100,120).
C2_PageCountAndNumbers ==
    pc = "paginated" =>
        LET n == Len(messages)
            s == config.messages_per_page
        IN  /\ Len(pages) = CeilDiv(n, s)
            /\ \A k \in 1..Len(pages) :
                /\ pages[k].page = k
                /\ pages[k].totalPages = CeilDiv(n, s)
                /\ k < Len(pages) => Len(pages[k].messages) = s
                /\ Len(pages[k].messages) >= 1
            /\ (n = ScenarioMessages /\ s = DefaultMessagesPerPage) =>
                /\ Len(pages) = 2
                /\ pages[1].startIndex = 0 /\ pages[1].endIndex = DefaultMessagesPerPage
                /\ pages[2].startIndex = DefaultMessagesPerPage
                /\ pages[2].endIndex = ScenarioMessages

C2_Witness ==
    /\ pc = "paginated"
    /\ Len(messages) = ScenarioMessages
    /\ config.messages_per_page = DefaultMessagesPerPage
    /\ Len(pages) = 2

(***************************************************************************)
(* Strings: str.lower, str.strip, startswith/endswith, substring, and the  *)
(* word pattern \b\w+\b of re.findall.                                     *)
(***************************************************************************)
UpperLetters ==
    <<"A","B","C","D","E","F","G","H","I","J","K","L","M",
      "N","O","P","Q","R","S","T","U","V","W","X","Y","Z">>

LowerLetters ==
    <<"a","b","c","d","e","f","g","h","i","j","k","l","m",
      "n","o","p","q","r","s","t","u","v","w","x","y","z">>

Digits == {"0","1","2","3","4","5","6","7","8","9"}

Range(f) == {f[x] : x \in DOMAIN f}

WordChars == Range(UpperLetters) \cup Range(LowerLetters) \cup Digits \cup {"_"}

Whitespace == {" ", "\n", "\t", "\r"}

LowerChar(c) ==
    IF c \in Range(UpperLetters)
    THEN LowerLetters[CHOOSE k \in DOMAIN UpperLetters : UpperLetters[k] = c]
    ELSE c

\* str.lower()
Lower(s) == [k \in 1..Len(s) |-> LowerChar(s[k])]

\* s.startswith(p)
StartsWith(s, p) == Len(p) <= Len(s) /\ SubSeq(s, 1, Len(p)) = p

\* s.endswith(p)
EndsWith(s, p) == Len(p) <= Len(s) /\ SubSeq(s, Len(s) - Len(p) + 1, Len(s)) = p

\* p in s
IsSubstring(p, s) ==
    \E a \in 0..(Len(s) - Len(p)) : SubSeq(s, a + 1, a + Len(p)) = p

\* re.findall(r"\b\w+\b", s): the maximal runs of word characters, in order
RECURSIVE WordsFrom(_, _, _)
WordsFrom(s, k, cur) ==
    IF k > Len(s) THEN (IF cur = <<>> THEN <<>> ELSE <<cur>>)
    ELSE IF s[k] \in WordChars THEN WordsFrom(s, k + 1, Append(cur, s[k]))
    ELSE (IF cur = <<>> THEN <<>> ELSE <<cur>>) \o WordsFrom(s, k + 1, <<>>)

FindAllWords(s) == WordsFrom(s, 1, <<>>)

(***************************************************************************)
(* build_search_index                                                      *)
(***************************************************************************)
MinWordLen == 3
DocPreviewLen == 50

\* index["terms"][word].append(i) on a defaultdict(list)
AppendPosting(terms, word, i) ==
    IF word \in DOMAIN terms
    THEN [terms EXCEPT ![word] = Append(@, i)]
    ELSE terms @@ (word :> <<i>>)

IndexableRepeated(word, seen) == Len(word) >= MinWordLen

\* if len(word) >= 3 and word not in seen
Indexable(word, seen) == Len(word) >= MinWordLen /\ word \notin seen

\* for word in words: ...; the posting lists after message i
RECURSIVE IndexWords(_, _, _, _)
IndexWords(terms, seen, words, i) ==
    IF words = <<>> THEN terms
    ELSE IF Indexable(Head(words), seen)
         THEN IndexWords(AppendPosting(terms, Head(words), i),
                         seen \cup {Head(words)}, Tail(words), i)
         ELSE IndexWords(terms, seen, Tail(words), i)

\* words = re.findall(r"\b\w+\b", msg["searchText"].lower())
SearchWords(msg) == FindAllWords(Lower(msg.searchText))

\* index["documentMap"][str(i)]
DocumentEntryRoundedUp(msg, i, cfg) ==
    [id |-> msg.id,
     page |-> (i + cfg.messages_per_page - 1) \div cfg.messages_per_page + 1,
     role |-> msg.role,
     preview |-> Take(msg.content.textPreview, DocPreviewLen)]

DocumentEntry(msg, i, cfg) ==
    [id |-> msg.id,
     page |-> i \div cfg.messages_per_page + 1,
     role |-> msg.role,
     preview |-> Take(msg.content.textPreview, DocPreviewLen)]

\* for i, msg in enumerate(messages): the loop from position i on
RECURSIVE IndexFrom(_, _, _, _)
IndexFrom(msgs, i, index, cfg) ==
    IF i >= Len(msgs) THEN index
    ELSE LET msg == msgs[i + 1]
         IN  IndexFrom(msgs, i + 1,
                 [index EXCEPT
                    !.documentMap = @ @@ (i :> DocumentEntry(msg, i, cfg)),
                    !.terms = IndexWords(@, {}, SearchWords(msg), i)],
                 cfg)

build_search_index(msgs, cfg) ==
    IndexFrom(msgs, 0,
        [version |-> "1.0", type |-> "inverted_index", documents |-> Len(msgs),
         terms |-> <<>>, documentMap |-> <<>>],
        cfg)

(***************************************************************************)
(* Specification of the search indexer: up to MaxDocs messages whose       *)
(* search text is any concatenation of up to MaxPieces pieces.             *)
(***************************************************************************)
MaxDocs == 2
MaxPieces == 2

TextPieces == {<<"C","a","t"," ">>, <<"a","t">>, <<"c","a","t">>}

RECURSIVE Flatten(_)
Flatten(ss) == IF ss = <<>> THEN <<>> ELSE Head(ss) \o Flatten(Tail(ss))

PieceTexts(pieces, n) == {Flatten(ps) : ps \in BoundedSeqs(pieces, n)}

\* the fields of a message that build_search_index reads
IndexedMessage(text, k) ==
    [id |-> <<"m","s","g","_">> \o <<LowerLetters[k]>>,
     role |-> IF k % 2 = 1 THEN "user" ELSE "assistant",
     content |-> [textPreview |-> text],
     searchText |-> text]

InitIndex ==
    /\ pc = "start"
    /\ config = DEFAULT_CONFIG
    /\ \E texts \in BoundedSeqs(PieceTexts(TextPieces, MaxPieces), MaxDocs) :
          messages = [k \in 1..Len(texts) |-> IndexedMessage(texts[k], k)]
    /\ search_index = <<>>
    /\ pages = <<>> /\ artifacts = <<>> /\ commits = <<>>
    /\ image_versions = <<>> /\ env = <<>> /\ ret = <<>> /\ raised = ""
    /\ links = <<>>
    /\ sessions = <<>> /\ images = <<>> /\ manifest = <<>> /\ output = <<>>

BuildSearchIndex ==
    /\ pc = "start"
    /\ search_index' = build_search_index(messages, config)
    /\ pc' = "indexed"
    /\ UNCHANGED <<config, messages, pages, artifacts, commits, image_versions,
                   env, ret, raised, links,
                   sessions, images, manifest, output>>

NextIndex == BuildSearchIndex

SpecIndex == InitIndex /\ [][NextIndex]_vars

(***************************************************************************)
(* Properties of the search indexer.                                       *)
(***************************************************************************)
\* w occurs in s as a word token: a run of word characters that no word
\* character precedes or follows
IsWordTokenOf(w, s) ==
    /\ w # <<>>
    /\ \A k \in 1..Len(w) : w[k] \in WordChars
    /\ \E a \in 0..(Len(s) - Len(w)) :
        /\ SubSeq(s, a + 1, a + Len(w)) = w
        /\ (a = 0 \/ s[a] \notin WordChars)
        /\ (a + Len(w) = Len(s) \/ s[a + Len(w) + 1] \notin WordChars)

Substrings(s) == {SubSeq(s, a, b) : a \in 1..Len(s), b \in 1..Len(s)}

Postings(w) ==
    IF w \in DOMAIN search_index.terms THEN search_index.terms[w] ELSE <<>>

\* C6: position i is in the posting list of w iff w has length >= 3 and is
\* a word token of message i's lowercase search text; no position occurs
\* twice in a posting list; every posting list is strictly increasing.
C6_PostingLists ==
    pc = "indexed" =>
        LET texts == [k \in 1..Len(messages) |-> Lower(messages[k].searchText)]
            candidates == DOMAIN search_index.terms
                            \cup UNION {Substrings(texts[k]) : k \in 1..Len(texts)}
        IN  \A w \in candidates :
                /\ \A i \in 0..(Len(messages) - 1) :
                      (\E p \in 1..Len(Postings(w)) : Postings(w)[p] = i)
                        <=> (Len(w) >= 3 /\ IsWordTokenOf(w, texts[i + 1]))
                /\ \A p, q \in 1..Len(Postings(w)) :
                      p < q => Postings(w)[p] < Postings(w)[q]
                /\ \A p \in 1..Len(Postings(w)) :
                      Postings(w)[p] \in 0..(Len(messages) - 1)

\* both messages hold "cat" twice (once capitalised); it is posted once each
C6_Witness ==
    /\ pc = "indexed"
    /\ Len(messages) = 2
    /\ messages[1].searchText = <<"C","a","t"," ","c","a","t">>
    /\ messages[2].searchText = <<"C","a","t"," ","C","a","t"," ">>
    /\ search_index.terms[<<"c","a","t">>] = <<0, 1>>

(***************************************************************************)
(* Dicts and paths.  A dict is a function from its keys; pathlib works on  *)
(* the components of a path string.                                        *)
(***************************************************************************)
\* d.get(key, default)
Get(d, key, default) == IF key \in DOMAIN d THEN d[key] ELSE default

\* s.split(sep) for a one-character sep
Split(s, sep) ==
    LET cuts == {k \in 1..Len(s) : s[k] = sep}
        cut(i) == IF i = 0 THEN 0
                  ELSE IF i > Cardinality(cuts) THEN Len(s) + 1
                  ELSE CHOOSE k \in cuts : Cardinality({j \in cuts : j < k}) = i - 1
    IN  [i \in 1..(Cardinality(cuts) + 1) |-> SubSeq(s, cut(i - 1) + 1, cut(i) - 1)]

\* sep.join(parts)
RECURSIVE Join(_, _)
Join(sep, parts) ==
    IF parts = <<>> THEN <<>>
    ELSE IF Len(parts) = 1 THEN parts[1]
    ELSE parts[1] \o sep \o Join(sep, Tail(parts))

IsPathComponent(c) == c # <<>> /\ c # <<".">>

\* Path(s): whether it is anchored at the root, and its components
PathOf(s) ==
    [root |-> StartsWith(s, <<"/">>),
     parts |-> SelectSeq(Split(s, "/"), IsPathComponent)]

\* Path(s).name
PathName(s) ==
    LET parts == PathOf(s).parts
    IN  IF parts = <<>> THEN <<>> ELSE parts[Len(parts)]

\* str(path)
PathStr(p) ==
    IF p.root THEN <<"/">> \o Join(<<"/">>, p.parts)
    ELSE IF p.parts = <<>> THEN <<".">>
    ELSE Join(<<"/">>, p.parts)

\* self.repo_path
repo_path == <<"/","r","e","p","o">>

IsRelativeTo(p, base) ==
    /\ p.root = base.root
    /\ Len(base.parts) <= Len(p.parts)
    /\ SubSeq(p.parts, 1, Len(base.parts)) = base.parts

\* _make_relative_path: relative_to(repo_path), or the name on ValueError
MakeRelativePath(abs_path) ==
    LET p == PathOf(abs_path)
        base == PathOf(repo_path)
    IN  IF IsRelativeTo(p, base)
        THEN PathStr([root |-> FALSE,
                      parts |-> SubSeq(p.parts, Len(base.parts) + 1, Len(p.parts))])
        ELSE PathName(abs_path)

\* s.rfind(".") as a 1-based position, 0 when there is none
LastDot(s) ==
    IF \E k \in 1..Len(s) : s[k] = "."
    THEN CHOOSE k \in 1..Len(s) : s[k] = "." /\ \A j \in (k + 1)..Len(s) : s[j] # "."
    ELSE 0

\* Path(s).suffix
PathSuffix(s) ==
    LET name == PathName(s)
        k == LastDot(name)
    IN  IF 1 < k /\ k < Len(name) THEN SubSeq(name, k, Len(name)) ELSE <<>>

ExtMap ==
    (<<".","p","y">> :> <<"p","y","t","h","o","n">>) @@ (<<".","d","o">> :> <<"s","t","a","t","a">>) @@ (<<".","j","s">> :> <<"j","a","v","a","s","c","r","i","p","t">>)
    @@ (<<".","t","s">> :> <<"t","y","p","e","s","c","r","i","p","t">>) @@ (<<".","h","t","m","l">> :> <<"h","t","m","l">>) @@ (<<".","c","s","s">> :> <<"c","s","s">>)
    @@ (<<".","j","s","o","n">> :> <<"j","s","o","n">>) @@ (<<".","m","d">> :> <<"m","a","r","k","d","o","w","n">>) @@ (<<".","s","h">> :> <<"b","a","s","h">>)
    @@ (<<".","r">> :> <<"r">>) @@ (<<".","R">> :> <<"r">>)

\* _detect_language
DetectLanguage(file_path) == Get(ExtMap, Lower(PathSuffix(file_path)), <<"t","e","x","t">>)

(***************************************************************************)
(* _parse_tool_use, _create_tool_preview, _sanitize_tool_input             *)
(***************************************************************************)
BashPreviewLen == 50
GrepPreviewLen == 30

Ellipsis == <<".",".",".">>

\* s[:n] + "..." if len(s) > n else s
Truncated(s, n) == IF Len(s) > n THEN Take(s, n) \o Ellipsis ELSE s

SanitizeToolInput(input_data, cfg) ==
    [key \in DOMAIN input_data |->
        Truncated(input_data[key], cfg.tool_result_max_length)]

CreateToolPreview(name, input_data) ==
    CASE name = <<"R","e","a","d">> -> <<"R","e","a","d"," ">> \o PathName(Get(input_data, "file_path", <<>>))
      [] name = <<"W","r","i","t","e">> -> <<"W","r","i","t","e"," ">> \o PathName(Get(input_data, "file_path", <<>>))
      [] name = <<"E","d","i","t">> -> <<"E","d","i","t"," ">> \o PathName(Get(input_data, "file_path", <<>>))
      [] name = <<"B","a","s","h">> ->
            <<"R","u","n",":"," ">> \o Truncated(Get(input_data, "command", <<>>), BashPreviewLen)
      [] name = <<"G","l","o","b">> -> <<"F","i","n","d"," ","f","i","l","e","s",":"," ">> \o Get(input_data, "pattern", <<>>)
      [] name = <<"G","r","e","p">> ->
            <<"S","e","a","r","c","h",":"," ">> \o Truncated(Get(input_data, "pattern", <<>>), GrepPreviewLen)
      [] OTHER -> name

ParseToolUse(item, cfg) ==
    LET tool_name == Get(item, "name", <<"u","n","k","n","o","w","n">>)
        tool_input == Get(item, "input", <<>>)
    IN  [id |-> Get(item, "id", <<>>),
         name |-> tool_name,
         input |-> SanitizeToolInput(tool_input, cfg),
         inputPreview |-> CreateToolPreview(tool_name, tool_input),
         hasResult |-> FALSE,
         resultPreview |-> <<>>]

(***************************************************************************)
(* _extract_artifact_from_tool.  An optional value is a sequence of at     *)
(* most one element (<<>> is None).  The artifact id is "art_" and the     *)
(* first 8 hex digits of md5(uuid + "_" + file_path).  The 32 bits kept of *)
(* a digest are shared by many texts: the two texts of SharedDigest are    *)
(*   md5("u1_/repo/bxqq.py") = 4f734c9a...                                 *)
(*   md5("u1_/repo/ekrl.py") = 4f734c9a...                                 *)
(* Every other text of the model stands for its own digest prefix (no two  *)
(* of them share one).                                                     *)
(***************************************************************************)
EditPreviewLen == 100

SharedDigest ==
    [texts |-> {<<"u","1","_","/","r","e","p","o","/","b","x","q","q",".","p","y">>,
                <<"u","1","_","/","r","e","p","o","/","e","k","r","l",".","p","y">>},
     hexdigest |-> <<"4","f","7","3","4","c","9","a">>]

\* hashlib.md5(text.encode()).hexdigest()[:8]
Md5Prefix(text) ==
    IF text \in SharedDigest.texts THEN SharedDigest.hexdigest ELSE text

\* f"art_{md5(f'{uuid}_{file_path}')[:8]}"
ArtifactId(uuid, file_path) ==
    <<"a","r","t","_">> \o Md5Prefix(uuid \o <<"_">> \o file_path)

ArtifactTools == {<<"W","r","i","t","e">>, <<"E","d","i","t">>, <<"R","e","a","d">>}

ArtifactTypeAlwaysEdit(name) == "file_edit"

ArtifactType(name) ==
    IF name = <<"E","d","i","t">> THEN "file_edit"
    ELSE IF name = <<"W","r","i","t","e">> THEN "file_create"
    ELSE "file_read"

\* the artifact built for a tool call, <<>> when the call yields none
ExtractArtifactFromTool(tool_call, message) ==
    LET name == tool_call.name
        input_data == tool_call.input
        file_path == Get(input_data, "file_path", <<>>)
    IN  IF name \notin ArtifactTools THEN <<>>
        ELSE IF file_path = <<>> THEN <<>>
        ELSE <<[id |-> ArtifactId(message.uuid, file_path),
                type |-> ArtifactType(name),
                path |-> file_path,
                relativePath |-> MakeRelativePath(file_path),
                operation |-> name,
                timestamp |-> message.timestamp,
                messageId |-> message.id,
                toolCallId |-> tool_call.id,
                metadata |-> [language |-> DetectLanguage(file_path)],
                preview |->
                    IF name = <<"E","d","i","t">>
                    THEN <<[before |-> Take(Get(input_data, "old_string", <<>>),
                                            EditPreviewLen),
                            after |-> Take(Get(input_data, "new_string", <<>>),
                                           EditPreviewLen)]>>
                    ELSE <<>>]>>

\* self.artifacts[artifact_id] = artifact
StoreArtifact(arts, artifact) ==
    IF artifact = <<>> THEN arts
    ELSE [id \in DOMAIN arts \cup {artifact[1].id} |->
            IF id = artifact[1].id THEN artifact[1] ELSE arts[id]]

(***************************************************************************)
(* Specification of artifact extraction: one tool_use item of one message. *)
(* File paths are the absolute paths of up to MaxPathDepth components, a   *)
(* relative path and the empty path; the key may also be absent.           *)
(***************************************************************************)
MaxPathDepth == 3

PathComponents == {<<"r","e","p","o">>, <<"s","r","c">>, <<"a",".","p","y">>}

AbsolutePaths(n) ==
    {<<"/">> \o Join(<<"/">>, cs) : cs \in BoundedSeqs(PathComponents, n)}

FilePaths(n) == AbsolutePaths(n) \cup {<<"a",".","p","y">>, <<>>}

Filler(n) == [k \in 1..n |-> "x"]

ToolNames == {<<"R","e","a","d">>, <<"W","r","i","t","e">>, <<"E","d","i","t">>, <<"B","a","s","h">>}

\* tool inputs: each of file_path, old_string, new_string present or absent
ToolInputs(n) ==
    UNION {
        {[k \in keys |->
            CASE k = "file_path" -> fp [] k = "old_string" -> old [] OTHER -> new] :
            fp \in FilePaths(n),
            old \in {Filler(EditPreviewLen), Filler(EditPreviewLen + 1)},
            new \in {<<>>, Filler(DefaultToolResultMaxLength + 1)}}
        : keys \in SUBSET {"file_path", "old_string", "new_string"}}

ParsedMessageStub ==
    [id |-> <<"m","s","g","_","u","1">>, uuid |-> <<"u","1">>, timestamp |-> <<"t","1">>]

InitArtifact ==
    /\ pc = "start"
    /\ config = DEFAULT_CONFIG
    /\ messages = <<ParsedMessageStub>>
    /\ \E name \in ToolNames, input \in ToolInputs(MaxPathDepth) :
          env = [type |-> <<"t","o","o","l","_","u","s","e">>, id |-> <<"t","o","o","l","u","_","1">>, name |-> name,
                 input |-> input]
    /\ artifacts = <<>>
    /\ ret = <<>>
    /\ pages = <<>> /\ search_index = <<>> /\ commits = <<>>
    /\ image_versions = <<>> /\ raised = "" /\ links = <<>>
    /\ sessions = <<>> /\ images = <<>> /\ manifest = <<>> /\ output = <<>>

\* the tool_use branch of _parse_message_entry, up to the returned artifact
ExtractArtifact ==
    /\ pc = "start"
    /\ LET tool_call == ParseToolUse(env, config)
           artifact == ExtractArtifactFromTool(tool_call, messages[1])
       IN  /\ ret' = artifact
           /\ artifacts' = StoreArtifact(artifacts, artifact)
    /\ pc' = "extracted"
    /\ UNCHANGED <<config, messages, pages, search_index, commits,
                   image_versions, env, raised, links,
                   sessions, images, manifest, output>>

NextArtifact == ExtractArtifact

SpecArtifact == InitArtifact /\ [][NextArtifact]_vars

(***************************************************************************)
(* Properties of artifact extraction.                                      *)
(***************************************************************************)
\* C7: an artifact is produced iff the tool is Read, Write or Edit and the
\* file_path input is present and non-empty; its kind is file_read,
\* file_create or file_edit accordingly; a path under the repo root gets the
\* rest of the path as relativePath (Write of /repo/a.py: one file_create
\* artifact, relativePath a.py); only Edit artifacts carry previews, each a
\* prefix of the input of at most 100 characters.
C7_ArtifactExtraction ==
    pc = "extracted" =>
        LET name == env.name
            has_path == "file_path" \in DOMAIN env.input /\ env.input.file_path # <<>>
            under == repo_path \o <<"/">>
        IN  /\ (ret # <<>>) <=> (name \in {<<"R","e","a","d">>, <<"W","r","i","t","e">>, <<"E","d","i","t">>} /\ has_path)
            /\ ret = <<>> => artifacts = <<>>
            /\ ret # <<>> =>
                LET a == ret[1]
                    fp == env.input.file_path
                IN  /\ name = <<"R","e","a","d">> => a.type = "file_read"
                    /\ name = <<"W","r","i","t","e">> => a.type = "file_create"
                    /\ name = <<"E","d","i","t">> => a.type = "file_edit"
                    /\ (StartsWith(fp, under) /\ Len(fp) > Len(under)) =>
                          a.relativePath = SubSeq(fp, Len(under) + 1, Len(fp))
                    /\ (name = <<"W","r","i","t","e">> /\ fp = <<"/","r","e","p","o","/","a",".","p","y">>) =>
                          /\ a.type = "file_create"
                          /\ a.relativePath = <<"a",".","p","y">>
                          /\ Cardinality(DOMAIN artifacts) = 1
                          /\ \A id \in DOMAIN artifacts : artifacts[id] = a
                    /\ (a.preview # <<>>) <=> (name = <<"E","d","i","t">>)
                    /\ a.preview # <<>> =>
                          /\ Len(a.preview[1].before) <= 100
                          /\ Len(a.preview[1].after) <= 100
                          /\ StartsWith(Get(env.input, "old_string", <<>>),
                                        a.preview[1].before)
                          /\ StartsWith(Get(env.input, "new_string", <<>>),
                                        a.preview[1].after)

\* an Edit below the repo root whose old_string is one character too long
C7_Witness ==
    /\ pc = "extracted"
    /\ env.name = <<"E","d","i","t">>
    /\ ret # <<>>
    /\ ret[1].type = "file_edit"
    /\ ret[1].path = <<"/","r","e","p","o","/","s","r","c","/","a",".","p","y">>
    /\ ret[1].relativePath = <<"s","r","c","/","a",".","p","y">>
    /\ "old_string" \in DOMAIN env.input
    /\ Len(env.input.old_string) = 101
    /\ Len(ret[1].preview[1].before) = 100

(***************************************************************************)
(* JSON values.  A JSON object is a dict (a function from its keys), a     *)
(* JSON string is a string; any other value, and the outcome of a line     *)
(* that json.loads rejects, is a record with the single field json.        *)
(***************************************************************************)
None == <<>>

IsDict(v) == "json" \notin DOMAIN v

NotJson == [json |-> "invalid"]
JsonArray == [json |-> "array"]

(***************************************************************************)
(* Text clean-up of _parse_message_entry: the four re.sub calls and strip. *)
(***************************************************************************)
\* first position j >= k where p occurs in s, 0 when there is none
FindFrom(s, p, k) ==
    LET hits == {j \in k..(Len(s) - Len(p) + 1) : SubSeq(s, j, j + Len(p) - 1) = p}
    IN  IF hits = {} THEN 0 ELSE CHOOSE j \in hits : \A h \in hits : j <= h

\* re.sub(open + ".*?" + close, "", s, flags=re.DOTALL), from position k on
RECURSIVE SubTagged(_, _, _, _)
SubTagged(s, k, open, close) ==
    IF k > Len(s) THEN <<>>
    ELSE IF /\ k + Len(open) - 1 <= Len(s)
            /\ SubSeq(s, k, k + Len(open) - 1) = open
            /\ FindFrom(s, close, k + Len(open)) # 0
         THEN SubTagged(s, FindFrom(s, close, k + Len(open)) + Len(close), open, close)
         ELSE <<s[k]>> \o SubTagged(s, k + 1, open, close)

\* str.strip()
Strip(s) ==
    LET solid == {k \in 1..Len(s) : s[k] \notin Whitespace}
    IN  IF solid = {} THEN <<>>
        ELSE SubSeq(s, CHOOSE k \in solid : \A j \in solid : k <= j,
                       CHOOSE k \in solid : \A j \in solid : k >= j)

ContextTags ==
    <<[open |-> <<"<","s","y","s","t","e","m","-","r","e","m","i","n","d","e","r",">">>, close |-> <<"<","/","s","y","s","t","e","m","-","r","e","m","i","n","d","e","r",">">>],
      [open |-> <<"<","i","d","e","_","o","p","e","n","e","d","_","f","i","l","e",">">>, close |-> <<"<","/","i","d","e","_","o","p","e","n","e","d","_","f","i","l","e",">">>],
      [open |-> <<"<","i","d","e","_","s","e","l","e","c","t","i","o","n",">">>, close |-> <<"<","/","i","d","e","_","s","e","l","e","c","t","i","o","n",">">>],
      [open |-> <<"<","i","d","e","_","f","i","l","e","_","c","o","n","t","e","x","t",">">>, close |-> <<"<","/","i","d","e","_","f","i","l","e","_","c","o","n","t","e","x","t",">">>]>>

RECURSIVE SubAllTags(_, _)
SubAllTags(s, tags) ==
    IF tags = <<>> THEN s
    ELSE SubAllTags(SubTagged(s, 1, Head(tags).open, Head(tags).close), Tail(tags))

\* lines 155-159
StripContext(text) == Strip(SubAllTags(text, ContextTags))

(***************************************************************************)
(* _parse_message_entry                                                    *)
(***************************************************************************)
IdPrefixLen == 8
ThinkingPreviewLen == 300
TextPreviewLen == 200

AnsweredPrefix == <<"U","s","e","r"," ","h","a","s"," ","a","n","s","w","e","r","e","d">>

\* the texts a tool_result item folds into the visible text
RECURSIVE AnsweredTexts(_)
AnsweredTexts(tr_list) ==
    IF tr_list = <<>> THEN <<>>
    ELSE LET trc == Head(tr_list)
             text == IF IsDict(trc) /\ Get(trc, "type", <<>>) = <<"t","e","x","t">>
                     THEN Get(trc, "text", <<>>) ELSE <<>>
         IN  (IF StartsWith(text, AnsweredPrefix) THEN <<text>> ELSE <<>>)
                \o AnsweredTexts(Tail(tr_list))

ToolResultTexts(item) ==
    LET tr_content == Get(item, "content", [list |-> <<>>])
    IN  IF "str" \in DOMAIN tr_content
        THEN (IF StartsWith(tr_content.str, AnsweredPrefix)
              THEN <<tr_content.str>> ELSE <<>>)
        ELSE IF "list" \in DOMAIN tr_content THEN AnsweredTexts(tr_content.list)
        ELSE <<>>

\* one pass of the loop over content_list; acc carries the loop's locals,
\* the message under construction and self.artifacts
ParseItem(acc, item, msg, cfg) ==
    IF ~IsDict(item) THEN acc
    ELSE LET item_type == Get(item, "type", <<>>)
         IN  CASE item_type = <<"t","e","x","t">> ->
                    LET text == StripContext(Get(item, "text", <<>>))
                    IN  IF text # <<>>
                        THEN [acc EXCEPT !.text_parts = Append(@, text),
                                         !.search_parts = Append(@, Lower(text))]
                        ELSE acc
               [] item_type = <<"t","h","i","n","k","i","n","g">> ->
                    LET thinking == Get(item, "thinking", <<>>)
                    IN  IF thinking # <<>>
                        THEN [acc EXCEPT
                                !.hasThinking = TRUE,
                                !.thinkingPreview =
                                    IF cfg.show_thinking_preview
                                    THEN Truncated(thinking, ThinkingPreviewLen)
                                    ELSE @]
                        ELSE acc
               [] item_type = <<"t","o","o","l","_","r","e","s","u","l","t">> ->
                    LET texts == ToolResultTexts(item)
                    IN  [acc EXCEPT
                            !.text_parts = @ \o texts,
                            !.search_parts = @ \o [k \in 1..Len(texts) |-> Lower(texts[k])]]
               [] item_type = <<"t","o","o","l","_","u","s","e">> ->
                    LET tool_call == ParseToolUse(item, cfg)
                        artifact == ExtractArtifactFromTool(tool_call, msg)
                    IN  [acc EXCEPT
                            !.toolCalls = Append(@, tool_call),
                            !.artifact_ids =
                                IF artifact # <<>> THEN Append(@, artifact[1].id) ELSE @,
                            !.artifacts = StoreArtifact(@, artifact)]
               [] OTHER -> acc

RECURSIVE ParseItems(_, _, _, _)
ParseItems(acc, content_list, msg, cfg) ==
    IF content_list = <<>> THEN acc
    ELSE ParseItems(ParseItem(acc, Head(content_list), msg, cfg),
                    Tail(content_list), msg, cfg)

\* the message built for a user/assistant entry, and self.artifacts after it
ParseMessageEntry(entry, line_num, cfg, arts) ==
    LET message_data == Get(entry, "message", <<>>)
        content_list == Get(message_data, "content", <<>>)
        uuid == Get(entry, "uuid", <<>>)
        msg == [id |-> <<"m","s","g","_">> \o Take(uuid, IdPrefixLen),
                uuid |-> uuid,
                parentUuid |-> Get(entry, "parentUuid", None),
                role |-> entry.type,
                timestamp |-> Get(entry, "timestamp", <<>>),
                sessionId |-> Get(entry, "sessionId", <<>>),
                lineNum |-> line_num,
                content |-> [text |-> <<>>, textPreview |-> <<>>,
                             hasThinking |-> FALSE, thinkingPreview |-> None,
                             toolCalls |-> <<>>],
                artifacts |-> <<>>,
                relatedCommits |-> <<>>,
                searchText |-> <<>>]
        acc == ParseItems([text_parts |-> <<>>, search_parts |-> <<>>,
                           hasThinking |-> FALSE, thinkingPreview |-> None,
                           toolCalls |-> <<>>, artifact_ids |-> <<>>,
                           artifacts |-> arts],
                          content_list, msg, cfg)
        text == Join(<<"\n","\n">>, acc.text_parts)
    IN  [msg |-> [msg EXCEPT
                    !.content = [text |-> text,
                                 textPreview |-> Truncated(text, TextPreviewLen),
                                 hasThinking |-> acc.hasThinking,
                                 thinkingPreview |-> acc.thinkingPreview,
                                 toolCalls |-> acc.toolCalls],
                    !.artifacts = acc.artifact_ids,
                    !.searchText = Join(<<" ">>, acc.search_parts)],
         artifacts |-> acc.artifacts]

(***************************************************************************)
(* parse_transcript.  A line is what json.loads makes of it.               *)
(***************************************************************************)
MessageTypes == {<<"u","s","e","r">>, <<"a","s","s","i","s","t","a","n","t">>}

KeepOnlyWithText(msg) == msg.content.text # <<>>

\* if msg and (msg["content"]["text"] or msg["content"]["toolCalls"])
KeepMessage(msg) == msg.content.text # <<>> \/ msg.content.toolCalls # <<>>

\* one pass of the loop over the lines; st carries messages, self.artifacts
\* and the exception that ends the loop
StoreParsed(st, parsed) ==
    [st EXCEPT !.messages = IF KeepMessage(parsed.msg) THEN Append(@, parsed.msg) ELSE @,
               !.artifacts = parsed.artifacts]

ParseLine(st, entry, line_num, cfg) ==
    IF entry = NotJson THEN st
    ELSE IF ~IsDict(entry) THEN [st EXCEPT !.raised = "AttributeError"]
    ELSE IF Get(entry, "type", None) \notin MessageTypes THEN st
    ELSE StoreParsed(st, ParseMessageEntry(entry, line_num, cfg, st.artifacts))

RECURSIVE ParseLines(_, _, _, _)
ParseLines(lines, line_num, st, cfg) ==
    IF line_num > Len(lines) \/ st.raised # "" THEN st
    ELSE ParseLines(lines, line_num + 1,
                    ParseLine(st, lines[line_num], line_num, cfg), cfg)

\* messages: the returned list (none when raised # ""); artifacts: the map
parse_transcript(lines, cfg, arts) ==
    ParseLines(lines, 1, [messages |-> <<>>, artifacts |-> arts, raised |-> ""], cfg)

(***************************************************************************)
(* Specification of the transcript parser: a session file of up to        *)
(* MaxLines lines holding up to MaxItems content items in all is written,  *)
(* then parsed.  A line is undecodable, a JSON array, or a record of type  *)
(* user, assistant or summary.                                             *)
(***************************************************************************)
MaxLines == 2
MaxItems == 2

\* what a record of each type holds: text in both, tool results (and stray
\* non-object items) in user records, thinking and tool calls in assistant
\* records
TextItems ==
    {[type |-> <<"t","e","x","t">>, text |-> <<"H","i">>],
     [type |-> <<"t","e","x","t">>, text |-> <<" ","<","i","d","e","_","s","e","l","e","c","t","i","o","n",">","x","<","/","i","d","e","_","s","e","l","e","c","t","i","o","n",">">>]}

ContentItems(type) ==
    IF type = <<"u","s","e","r">>
    THEN TextItems \cup
         {[type |-> <<"t","o","o","l","_","r","e","s","u","l","t">>, content |-> [str |-> <<"o","k">>]],
          [type |-> <<"t","o","o","l","_","r","e","s","u","l","t">>,
           content |-> [list |-> <<[type |-> <<"t","e","x","t">>, text |-> <<"U","s","e","r"," ","h","a","s"," ","a","n","s","w","e","r","e","d",":"," ","B">>]>>]],
          [json |-> "string"]}
    ELSE TextItems \cup
         {[type |-> <<"t","h","i","n","k","i","n","g">>, thinking |-> <<"h","m">>],
          [type |-> <<"t","o","o","l","_","u","s","e">>, id |-> <<"t","o","o","l","u","_","1">>, name |-> <<"R","e","a","d">>,
           input |-> [file_path |-> <<"/","r","e","p","o","/","a",".","p","y">>]]}

TranscriptEntry(type, content_list) ==
    [type |-> type,
     uuid |-> IF type = <<"u","s","e","r">> THEN <<"u","1">> ELSE <<"u","2">>,
     timestamp |-> <<"t">>,
     sessionId |-> <<"s","1">>,
     message |-> [content |-> content_list]]

\* the lines that hold exactly k content items
LinesWith(k) ==
    UNION {{TranscriptEntry(type, content_list) :
                content_list \in [1..k -> ContentItems(type)]} : type \in MessageTypes}
    \cup (IF k = 0 THEN {NotJson, JsonArray} ELSE {})
    \cup (IF k = 1
          THEN {TranscriptEntry(<<"s","u","m","m","a","r","y">>, <<[type |-> <<"t","e","x","t">>, text |-> <<"H","i">>]>>)}
          ELSE {})

\* the number of content items a line holds
ItemCount(line) ==
    IF IsDict(line) THEN Len(line.message.content) ELSE 0

RECURSIVE TotalItems(_)
TotalItems(lines) ==
    IF lines = <<>> THEN 0 ELSE ItemCount(Head(lines)) + TotalItems(Tail(lines))

InitParse ==
    /\ pc = "start"
    /\ config = DEFAULT_CONFIG
    /\ env = [lines |-> <<>>]
    /\ artifacts = <<>>
    /\ ret = <<>>
    /\ raised = ""
    /\ messages = <<>> /\ pages = <<>> /\ search_index = <<>> /\ commits = <<>>
    /\ image_versions = <<>> /\ links = <<>>
    /\ sessions = <<>> /\ images = <<>> /\ manifest = <<>> /\ output = <<>>

\* the session file grows by one line before the build reads it
WriteLine ==
    /\ pc = "start"
    /\ Len(env.lines) < MaxLines
    /\ \E k \in 0..(MaxItems - TotalItems(env.lines)) :
          \E line \in LinesWith(k) :
             env' = [env EXCEPT !.lines = Append(@, line)]
    /\ UNCHANGED <<pc, config, messages, pages, search_index, artifacts, commits,
                   image_versions, ret, raised, links,
                   sessions, images, manifest, output>>

\* one call of parse_transcript on the file
ParseTranscript ==
    /\ pc = "start"
    /\ LET r == parse_transcript(env.lines, config, artifacts)
       IN  /\ ret' = IF r.raised = "" THEN r.messages ELSE <<>>
           /\ raised' = r.raised
           /\ artifacts' = r.artifacts
    /\ pc' = "parsed"
    /\ UNCHANGED <<config, messages, pages, search_index, commits,
                   image_versions, env, links,
                   sessions, images, manifest, output>>

NextParse == WriteLine \/ ParseTranscript

SpecParse == InitParse /\ [][NextParse]_vars

(***************************************************************************)
(* Properties of the transcript parser.                                    *)
(***************************************************************************)
IsMessageRecord(line) == IsDict(line) /\ Get(line, "type", None) \in MessageTypes

EntryItems(line) == line.message.content

\* the item contributes visible text: text that survives the clean-up, or
\* a tool result that starts with "User has answered"
ProducesText(item) ==
    /\ IsDict(item)
    /\ \/ item.type = <<"t","e","x","t">> /\ StripContext(item.text) # <<>>
       \/ /\ item.type = <<"t","o","o","l","_","r","e","s","u","l","t">>
          /\ \/ "str" \in DOMAIN item.content
                /\ StartsWith(item.content.str, <<"U","s","e","r"," ","h","a","s"," ","a","n","s","w","e","r","e","d">>)
             \/ "list" \in DOMAIN item.content
                /\ \E k \in 1..Len(item.content.list) :
                      /\ item.content.list[k].type = <<"t","e","x","t">>
                      /\ StartsWith(item.content.list[k].text, <<"U","s","e","r"," ","h","a","s"," ","a","n","s","w","e","r","e","d">>)

IsToolUse(item) == IsDict(item) /\ item.type = <<"t","o","o","l","_","u","s","e">>

\* thinking, a tool result that is not an answer, or text that the clean-up
\* empties
IsSilentItem(item) ==
    /\ IsDict(item)
    /\ \/ item.type = <<"t","h","i","n","k","i","n","g">>
       \/ item.type = <<"t","o","o","l","_","r","e","s","u","l","t">> /\ ~ProducesText(item)
       \/ item.type = <<"t","e","x","t">> /\ StripContext(item.text) = <<>>

RetainedLine(k) == \E j \in 1..Len(ret) : ret[j].lineNum = k

\* C3: whenever parse_transcript returns, every returned message has role
\* user or assistant and has text or a tool call; a user/assistant record
\* yields a returned message iff one of its items produces text or is a
\* tool call; a record of only thinking items, non-answer tool results and
\* text emptied by the clean-up is dropped.
C3_RetainedIffTextOrToolCall ==
    (pc = "parsed" /\ raised = "") =>
        /\ \A j \in 1..Len(ret) :
            /\ ret[j].role \in {<<"u","s","e","r">>, <<"a","s","s","i","s","t","a","n","t">>}
            /\ ret[j].content.text # <<>> \/ ret[j].content.toolCalls # <<>>
            /\ ret[j].lineNum \in 1..Len(env.lines)
            /\ IsMessageRecord(env.lines[ret[j].lineNum])
        /\ \A k \in 1..Len(env.lines) :
            IsMessageRecord(env.lines[k]) =>
                LET items == EntryItems(env.lines[k])
                IN  /\ RetainedLine(k) <=>
                          \E n \in 1..Len(items) :
                              ProducesText(items[n]) \/ IsToolUse(items[n])
                    /\ (\A n \in 1..Len(items) : IsSilentItem(items[n]))
                          => ~RetainedLine(k)

\* a record with only thinking is dropped, one with only a tool call is kept
C3_Witness ==
    /\ pc = "parsed" /\ raised = ""
    /\ Len(env.lines) = 2
    /\ IsMessageRecord(env.lines[1]) /\ IsMessageRecord(env.lines[2])
    /\ EntryItems(env.lines[1]) = <<[type |-> <<"t","h","i","n","k","i","n","g">>, thinking |-> <<"h","m">>]>>
    /\ Len(EntryItems(env.lines[2])) = 1
    /\ IsToolUse(EntryItems(env.lines[2])[1])
    /\ Len(ret) = 1
    /\ ret[1].lineNum = 2
    /\ ret[1].content.text = <<>>
    /\ Len(ret[1].content.toolCalls) = 1

WithoutLineNums(msgs) == [k \in 1..Len(msgs) |-> [msgs[k] EXCEPT !.lineNum = 0]]

\* C9: parse_transcript never fails on the content of a line: lines that
\* are not JSON, JSON that is not a record, and records of another type
\* are skipped, and the messages returned are those of the file without the
\* skipped lines, in the same order, up to the recorded line numbers.
C9_MalformedLinesSkipped ==
    pc = "parsed" =>
        /\ raised = ""
        /\ WithoutLineNums(ret) =
             WithoutLineNums(
                parse_transcript(SelectSeq(env.lines, IsMessageRecord),
                                 config, <<>>).messages)

(***************************************************************************)
(* match_commits_to_messages.  Timestamps are text.  FromIsoFormat is      *)
(* datetime.fromisoformat on the extended calendar forms YYYY-MM-DD,       *)
(* YYYY-MM-DDxHH, YYYY-MM-DDxHH:MM and YYYY-MM-DDxHH:MM:SS (x any          *)
(* character); its value is None when the text is rejected (ValueError)    *)
(* and otherwise the seconds from 2000-01-01T00:00:00 to the naive time.   *)
(***************************************************************************)
Hour == 3600
SecondsPerMinute == 60

DigitValue(c) == CHOOSE v \in 0..9 : <<"0","1","2","3","4","5","6","7","8","9">>[v + 1] = c

RECURSIVE Number(_)
Number(s) ==
    IF s = <<>> THEN 0
    ELSE 10 * Number(SubSeq(s, 1, Len(s) - 1)) + DigitValue(s[Len(s)])

IsLeap(year) == year % 4 = 0 /\ (year % 100 # 0 \/ year % 400 = 0)

DaysBeforeMonth == <<0, 31, 59, 90, 120, 151, 181, 212, 243, 273, 304, 334>>

DaysInMonth(year, month) ==
    IF month = 2 THEN (IF IsLeap(year) THEN 29 ELSE 28)
    ELSE IF month \in {4, 6, 9, 11} THEN 30 ELSE 31

\* date(year, month, day).toordinal()
Ordinal(year, month, day) ==
    365 * (year - 1) + (year - 1) \div 4 - (year - 1) \div 100 + (year - 1) \div 400
        + DaysBeforeMonth[month] + (IF month > 2 /\ IsLeap(year) THEN 1 ELSE 0) + day

IsIsoShape(s) ==
    /\ Len(s) \in {10, 13, 16, 19}
    /\ s[5] = "-" /\ s[8] = "-"
    /\ Len(s) >= 16 => s[14] = ":"
    /\ Len(s) >= 19 => s[17] = ":"
    /\ \A k \in 1..Len(s) : k \in {5, 8, 11, 14, 17} \/ s[k] \in Digits

\* the fields of the text, a missing hour, minute or second being 0
IsoFields(s) ==
    [year |-> Number(SubSeq(s, 1, 4)),
     month |-> Number(SubSeq(s, 6, 7)),
     day |-> Number(SubSeq(s, 9, 10)),
     hour |-> IF Len(s) >= 13 THEN Number(SubSeq(s, 12, 13)) ELSE 0,
     minute |-> IF Len(s) >= 16 THEN Number(SubSeq(s, 15, 16)) ELSE 0,
     second |-> IF Len(s) >= 19 THEN Number(SubSeq(s, 18, 19)) ELSE 0]

IsoInRange(f) ==
    /\ f.year >= 1
    /\ f.month \in 1..12
    /\ f.day \in 1..DaysInMonth(f.year, f.month)
    /\ f.hour < 24 /\ f.minute < 60 /\ f.second < 60

IsoSeconds(f) ==
    (Ordinal(f.year, f.month, f.day) - Ordinal(2000, 1, 1)) * (24 * Hour)
        + f.hour * Hour + f.minute * SecondsPerMinute + f.second

SecondsOf(f) == IF IsoInRange(f) THEN <<IsoSeconds(f)>> ELSE None

FromIsoFormat(s) == IF IsIsoShape(s) THEN SecondsOf(IsoFields(s)) ELSE None

\* s.replace(old, new) for one-character old and a text new
Replace(s, old, new) == Join(new, Split(s, old))

\* timestamp.split(" ")[0:2], joined with " ", " " replaced by "T": the
\* first two fields of "%ci", the offset dropped
CommitTime(timestamp) ==
    FromIsoFormat(Replace(Join(<<" ">>, Take(Split(timestamp, " "), 2)), " ", <<"T">>))

\* timestamp.replace("Z", "").split(".")[0]
MessageTime(timestamp) ==
    FromIsoFormat(Split(Replace(timestamp, "Z", <<>>), ".")[1])

InConfiguredWindow(delta, cfg) ==
    0 <= delta /\ delta <= cfg.time_window_minutes * SecondsPerMinute

\* timedelta(0) <= delta <= timedelta(hours=1)
InWindow(delta, cfg) == 0 <= delta /\ delta <= Hour

\* rel_path and rel_path in file_change.get("path", "")
PathMatches(rel_path, file_change) ==
    rel_path # <<>> /\ IsSubstring(rel_path, Get(file_change, "path", <<>>))

EveryMatchingFile(rel_path, files) ==
    SelectSeq([fi \in 1..Len(files) |-> fi],
              LAMBDA fi : PathMatches(rel_path, files[fi]))

\* the positions in filesChanged at which the inner loop records a link for
\* one artifact: the first match, after which it breaks
LinkedFiles(rel_path, files) ==
    LET hits == {fi \in 1..Len(files) : PathMatches(rel_path, files[fi])}
    IN  IF hits = {} THEN <<>>
        ELSE <<CHOOSE fi \in hits : \A h \in hits : fi <= h>>

\* lines 356-358: one link of commit ci, message mi and its artifact ai
RecordLinkOncePerCommit(st, ci, mi, ai, fi) ==
    [st EXCEPT
        !.commits[ci].relatedMessages = Append(@, st.messages[mi].id),
        !.commits[ci].relatedArtifacts = Append(@, st.messages[mi].artifacts[ai]),
        !.messages[mi].relatedCommits =
            IF \E k \in DOMAIN @ : @[k] = st.commits[ci].hash THEN @
            ELSE Append(@, st.commits[ci].hash),
        !.links = Append(@, [commit |-> ci, message |-> mi,
                             artifact |-> ai, file |-> fi])]

RecordLink(st, ci, mi, ai, fi) ==
    [st EXCEPT
        !.commits[ci].relatedMessages = Append(@, st.messages[mi].id),
        !.commits[ci].relatedArtifacts = Append(@, st.messages[mi].artifacts[ai]),
        !.messages[mi].relatedCommits = Append(@, st.commits[ci].hash),
        !.links = Append(@, [commit |-> ci, message |-> mi,
                             artifact |-> ai, file |-> fi])]

\* once per linked file-change position
RECURSIVE RecordLinks(_, _, _, _, _)
RecordLinks(st, ci, mi, ai, fis) ==
    IF fis = <<>> THEN st
    ELSE RecordLinks(RecordLink(st, ci, mi, ai, Head(fis)), ci, mi, ai, Tail(fis))

\* for artifact_id in msg["artifacts"], from position ai on
RECURSIVE MatchArtifacts(_, _, _, _, _)
MatchArtifacts(st, ci, mi, ai, arts) ==
    IF ai > Len(st.messages[mi].artifacts) THEN st
    ELSE LET artifact == Get(arts, st.messages[mi].artifacts[ai], <<>>)
             rel_path == Get(artifact, "relativePath", <<>>)
         IN  MatchArtifacts(
                RecordLinks(st, ci, mi, ai,
                            LinkedFiles(rel_path, st.commits[ci].filesChanged)),
                ci, mi, ai + 1, arts)

\* for msg in messages, from position mi on
RECURSIVE MatchMessages(_, _, _, _, _)
MatchMessages(st, ci, mi, arts, cfg) ==
    IF mi > Len(st.messages) THEN st
    ELSE LET msg == st.messages[mi]
             commit_time == CommitTime(st.commits[ci].timestamp)[1]
             msg_time == MessageTime(msg.timestamp)
         IN  IF msg.role # <<"a","s","s","i","s","t","a","n","t">> \/ msg_time = <<>>
             THEN MatchMessages(st, ci, mi + 1, arts, cfg)
             ELSE IF InWindow(commit_time - msg_time[1], cfg)
             THEN MatchMessages(MatchArtifacts(st, ci, mi, 1, arts), ci, mi + 1, arts, cfg)
             ELSE MatchMessages(st, ci, mi + 1, arts, cfg)

\* for commit in commits, from position ci on
RECURSIVE MatchCommits(_, _, _, _)
MatchCommits(st, ci, arts, cfg) ==
    IF ci > Len(st.commits) THEN st
    ELSE IF CommitTime(st.commits[ci].timestamp) = <<>>
    THEN MatchCommits(st, ci + 1, arts, cfg)
    ELSE MatchCommits(MatchMessages(st, ci, 1, arts, cfg), ci + 1, arts, cfg)

\* the messages and commits after the call, and the links it recorded
match_commits_to_messages(msgs, cmts, arts, cfg) ==
    MatchCommits([messages |-> msgs, commits |-> cmts, links |-> <<>>], 1, arts, cfg)

(***************************************************************************)
(* Specification of the correlator.  A history of at most MaxHistory       *)
(* events is laid down first: messages (one event each, plus one per file  *)
(* the message read) are parsed from transcript records, commits (one      *)
(* event each, plus one per changed file, of which there is at least one)  *)
(* are as the commit extractor builds them.  Then                          *)
(* match_commits_to_messages runs once.                                    *)
(***************************************************************************)
MaxHistory == 5

ReadPaths == {<<"/","r","e","p","o","/","a",".","p","y">>, <<"/","r","e","p","o","/","s","r","c","/","a",".","p","y">>, <<"/">>}

ChangedPaths == {<<"a",".","p","y">>, <<"s","r","c","/","a",".","p","y">>, <<"b",".","p","y">>}

\* role and timestamp of a message
MessageStamps ==
    {[role |-> <<"a","s","s","i","s","t","a","n","t">>, timestamp |-> <<"2","0","2","4","-","0","1","-","0","1","T","1","0",":","0","0",":","0","0",".","2","5","0","Z">>],
     [role |-> <<"a","s","s","i","s","t","a","n","t">>, timestamp |-> <<"n","/","a">>],
     [role |-> <<"u","s","e","r">>, timestamp |-> <<"2","0","2","4","-","0","1","-","0","1","T","1","0",":","0","0",":","0","0",".","2","5","0","Z">>]}

\* "%ci" of commits one second before the message, at its second with
\* another offset, 59, 60 and 61 minutes after it, and a text that is no date
CommitTimestamps ==
    {<<"y","e","s","t","e","r","d","a","y">>,
     <<"2","0","2","4","-","0","1","-","0","1"," ","0","9",":","5","9",":","5","9"," ","+","0","0","0","0">>,
     <<"2","0","2","4","-","0","1","-","0","1"," ","1","0",":","0","0",":","0","0"," ","+","0","1","0","0">>,
     <<"2","0","2","4","-","0","1","-","0","1"," ","1","0",":","5","9",":","0","0"," ","+","0","0","0","0">>,
     <<"2","0","2","4","-","0","1","-","0","1"," ","1","1",":","0","0",":","0","0"," ","-","0","5","0","0">>,
     <<"2","0","2","4","-","0","1","-","0","1"," ","1","1",":","0","1",":","0","0"," ","+","0","0","0","0">>}

ConfiguredWindows == {DefaultTimeWindowMinutes, 90}

HistorySize ==
    Len(messages) + Len(commits)
    + Cardinality({<<mi, ai>> \in (1..Len(messages)) \X (1..MaxHistory) :
                      ai <= Len(messages[mi].artifacts)})
    + Cardinality({<<ci, fi>> \in (1..Len(commits)) \X (1..MaxHistory) :
                      fi <= Len(commits[ci].filesChanged)})

\* the transcript record of the n-th message: some text and one Read per path
CorrelatedEntry(n, role, timestamp, paths) ==
    [type |-> role,
     uuid |-> <<"u">> \o <<LowerLetters[n]>>,
     timestamp |-> timestamp,
     sessionId |-> <<"s","1">>,
     message |-> [content |->
        <<[type |-> <<"t","e","x","t">>, text |-> <<"H","i">>]>>
        \o [k \in 1..Len(paths) |->
              [type |-> <<"t","o","o","l","_","u","s","e">>, id |-> <<"t","o","o","l","u","_","1">>, name |-> <<"R","e","a","d">>,
               input |-> [file_path |-> paths[k]]]]]]

\* lines 306-315 for the n-th commit of the log
CommitRecord(n, timestamp, paths) ==
    LET full_hash == <<"c","0","0","0","0","0">> \o <<LowerLetters[n]>> \o <<"f","f">>
    IN  [hash |-> Take(full_hash, 7),
         fullHash |-> full_hash,
         timestamp |-> timestamp,
         message |-> <<"f","i","x">>,
         author |-> <<"d","e","v">>,
         filesChanged |-> [k \in 1..Len(paths) |-> [status |-> <<"M">>, path |-> paths[k]]],
         relatedMessages |-> <<>>,
         relatedArtifacts |-> <<>>]

InitMatch ==
    /\ pc = "start"
    /\ \E w \in ConfiguredWindows :
          config = [DEFAULT_CONFIG EXCEPT !.time_window_minutes = w]
    /\ messages = <<>>
    /\ commits = <<>>
    /\ artifacts = <<>>
    /\ links = <<>>
    /\ sessions = <<>> /\ images = <<>> /\ manifest = <<>> /\ output = <<>>
    /\ pages = <<>> /\ search_index = <<>> /\ image_versions = <<>>
    /\ env = <<>> /\ ret = <<>> /\ raised = ""

\* a message is parsed from its transcript record (before any commit is read)
AddMessage ==
    /\ pc = "start"
    /\ commits = <<>>
    /\ \E n \in 0..(MaxHistory - HistorySize - 1) :
       \E stamp \in MessageStamps, paths \in [1..n -> ReadPaths] :
          LET parsed == ParseMessageEntry(
                            CorrelatedEntry(Len(messages) + 1, stamp.role,
                                            stamp.timestamp, paths),
                            Len(messages) + 1, config, artifacts)
          IN  /\ messages' = Append(messages, parsed.msg)
              /\ artifacts' = parsed.artifacts
    /\ UNCHANGED <<pc, config, pages, search_index, commits, image_versions,
                   env, ret, raised, links,
                   sessions, images, manifest, output>>

\* a commit that changed at least one file is read from the log
AddCommit ==
    /\ pc = "start"
    /\ \E n \in 1..(MaxHistory - HistorySize - 1) :
       \E timestamp \in CommitTimestamps, paths \in [1..n -> ChangedPaths] :
          commits' = Append(commits, CommitRecord(Len(commits) + 1, timestamp, paths))
    /\ UNCHANGED <<pc, config, messages, pages, search_index, artifacts,
                   image_versions, env, ret, raised, links,
          sessions, images, manifest, output>>

MatchCommitsToMessages ==
    /\ pc = "start"
    /\ LET st == match_commits_to_messages(messages, commits, artifacts, config)
       IN  /\ messages' = st.messages
           /\ commits' = st.commits
           /\ links' = st.links
    /\ pc' = "matched"
    /\ UNCHANGED <<config, pages, search_index, artifacts, image_versions,
                   env, ret, raised, sessions, images, manifest, output>>

NextMatch == AddMessage \/ AddCommit \/ MatchCommitsToMessages

SpecMatch == InitMatch /\ [][NextMatch]_vars

(***************************************************************************)
(* Properties of the correlator.                                           *)
(***************************************************************************)
\* rel occurs in path as a contiguous run of characters
OccursIn(rel, path) ==
    \E a \in 0..Len(path) :
        /\ a + Len(rel) <= Len(path)
        /\ \A k \in 1..Len(rel) : path[a + k] = rel[k]

\* the artifact at position ai of message mi has a non-empty repo-relative
\* path that occurs in the path of file-change fi of commit ci
ArtifactInFile(ci, mi, ai, fi) ==
    LET rel == artifacts[messages[mi].artifacts[ai]].relativePath
    IN  rel # <<>> /\ OccursIn(rel, commits[ci].filesChanged[fi].path)

ArtifactInCommit(ci, mi, ai) ==
    \E fi \in 1..Len(commits[ci].filesChanged) : ArtifactInFile(ci, mi, ai, fi)

BothTimed(ci, mi) ==
    CommitTime(commits[ci].timestamp) # None /\ MessageTime(messages[mi].timestamp) # None

Delta(ci, mi) ==
    CommitTime(commits[ci].timestamp)[1] - MessageTime(messages[mi].timestamp)[1]

\* assistant message, and 0 <= commit_time - message_time <= 1 hour
IsCandidate(ci, mi) ==
    /\ messages[mi].role = <<"a","s","s","i","s","t","a","n","t">>
    /\ BothTimed(ci, mi)
    /\ 0 <= Delta(ci, mi) /\ Delta(ci, mi) <= 60 * 60

Linked(ci, mi) ==
    \E k \in 1..Len(commits[ci].relatedMessages) :
        commits[ci].relatedMessages[k] = messages[mi].id

LinksAt(ci, mi) == {k \in 1..Len(links) : links[k].commit = ci /\ links[k].message = mi}

\* C5 as claimed: first match wins per file-change, that is, no two links
\* are recorded for the same commit, message and file-change entry.
C5_OneLinkPerFileChange ==
    pc = "matched" =>
        \A p, q \in 1..Len(links) :
            (/\ links[p].commit = links[q].commit
             /\ links[p].message = links[q].message
             /\ links[p].file = links[q].file) => p = q

\* C5 as amended: first match wins per artifact.  For every commit,
\* candidate message and artifact entry of the message, a link is recorded
\* exactly when some file-change path contains the artifact's path, it is
\* recorded once, for the first such file-change entry, and the related
\* lists of the commit and the message hold exactly these links.
C5_OneLinkPerArtifact ==
    pc = "matched" =>
        /\ \A ci \in 1..Len(commits), mi \in 1..Len(messages) :
            /\ \A ai \in 1..Len(messages[mi].artifacts) :
                LET here == {k \in LinksAt(ci, mi) : links[k].artifact = ai}
                IN  /\ Cardinality(here) =
                          IF IsCandidate(ci, mi) /\ ArtifactInCommit(ci, mi, ai)
                          THEN 1 ELSE 0
                    /\ \A k \in here :
                          /\ ArtifactInFile(ci, mi, ai, links[k].file)
                          /\ \A fi \in 1..(links[k].file - 1) :
                                ~ArtifactInFile(ci, mi, ai, fi)
            /\ Cardinality(LinksAt(ci, mi)) =
                  Cardinality({k \in 1..Len(commits[ci].relatedMessages) :
                                  commits[ci].relatedMessages[k] = messages[mi].id})
        /\ \A k \in 1..Len(links) :
            /\ links[k].commit \in 1..Len(commits)
            /\ links[k].message \in 1..Len(messages)
            /\ links[k].artifact \in 1..Len(messages[links[k].message].artifacts)
        /\ \A ci \in 1..Len(commits) :
            Len(commits[ci].relatedMessages) = Len(commits[ci].relatedArtifacts)

\* an artifact whose path is contained in two file-change paths of the
\* commit is linked once, at the first of them
C5_Witness ==
    /\ pc = "matched"
    /\ Len(links) = 1
    /\ Len(commits[links[1].commit].filesChanged) = 2
    /\ links[1].file = 1
    /\ ArtifactInFile(links[1].commit, links[1].message, links[1].artifact, 1)
    /\ ArtifactInFile(links[1].commit, links[1].message, links[1].artifact, 2)

(***************************************************************************)
(* extract_versioned_artifacts.  The object store answers git show for a   *)
(* (fullHash, path) pair with "ok" (zero status), "nonzero" or             *)
(* "TimeoutExpired".  The file system is the directories and files under   *)
(* data/artifacts.  The returned dict is a sequence of [name, versions]    *)
(* in the order the keys were first inserted.                              *)
(***************************************************************************)
IsImagePath(file_path) ==
    EndsWith(file_path, <<".","p","n","g">>) \/ EndsWith(file_path, <<".","j","p","g">>)

\* artifacts_dir / commit_hash, as the string of its path under the output
CommitDir(commit_hash) == <<"d","a","t","a","/","a","r","t","i","f","a","c","t","s","/">> \o commit_hash

\* f"data/artifacts/{commit_hash}/{image_name}"
LocalPath(commit_hash, image_name) ==
    <<"d","a","t","a","/","a","r","t","i","f","a","c","t","s","/">> \o commit_hash \o <<"/">> \o image_name

\* dict.setdefault(key, default), the dict afterwards
SetDefault(d, key, default) ==
    IF key \in DOMAIN d THEN d
    ELSE [x \in DOMAIN d \cup {key} |-> IF x = key THEN default ELSE d[x]]

\* image_versions[image_name].append(entry) on a defaultdict(list)
PrependVersion(versions, image_name, entry) ==
    IF \E k \in DOMAIN versions : versions[k].name = image_name
    THEN [k \in DOMAIN versions |->
            IF versions[k].name = image_name
            THEN [versions[k] EXCEPT !.versions = <<entry>> \o @]
            ELSE versions[k]]
    ELSE Append(versions, [name |-> image_name, versions |-> <<entry>>])

AppendVersion(versions, image_name, entry) ==
    IF \E k \in DOMAIN versions : versions[k].name = image_name
    THEN [k \in DOMAIN versions |->
            IF versions[k].name = image_name
            THEN [versions[k] EXCEPT !.versions = Append(@, entry)]
            ELSE versions[k]]
    ELSE Append(versions, [name |-> image_name, versions |-> <<entry>>])

\* commit_dir.mkdir(exist_ok=True); output_path.write_bytes(...)
WriteArtifact(fs, commit_dir, output_path) ==
    IF commit_dir \in fs.files
    THEN [fs |-> fs, raised |-> "FileExistsError"]
    ELSE IF output_path \in fs.dirs
    THEN [fs |-> [fs EXCEPT !.dirs = @ \cup {commit_dir}],
          raised |-> "IsADirectoryError"]
    ELSE [fs |-> [dirs |-> fs.dirs \cup {commit_dir},
                  files |-> fs.files \cup {output_path}],
          raised |-> ""]

\* the two appends after a successful write
RecordVersion(st, k, file_path) ==
    LET commit == st.commits[k]
        image_name == PathName(file_path)
        local_path == LocalPath(commit.hash, image_name)
    IN  [st EXCEPT
            !.commits[k] =
                [SetDefault(@, "versionedArtifacts", <<>>) EXCEPT
                    !.versionedArtifacts =
                        Append(@, [path |-> file_path, localPath |-> local_path])],
            !.image_versions =
                AppendVersion(@, image_name,
                              [commitHash |-> commit.hash,
                               timestamp |-> Get(commit, "timestamp", <<>>),
                               localPath |-> local_path])]

\* the body of the try block once git show has returned with zero status
StoreRetrieved(st, k, file_path, written) ==
    IF written.raised # ""
    THEN [st EXCEPT !.fs = written.fs]
    ELSE RecordVersion([st EXCEPT !.fs = written.fs], k, file_path)

ExtractFileOnce(st, k, file_change) ==
    IF \E a \in Range(Get(st.commits[k], "versionedArtifacts", <<>>)) :
            a.path = Get(file_change, "path", <<>>)
    THEN st
    ELSE IF ~IsImagePath(Get(file_change, "path", <<>>)) THEN st
    ELSE IF st.store[<<st.commits[k].fullHash, file_change.path>>] # "ok" THEN st
    ELSE StoreRetrieved(st, k, file_change.path,
            WriteArtifact(st.fs, CommitDir(st.commits[k].hash),
                          LocalPath(st.commits[k].hash, PathName(file_change.path))))

\* one pass of the loop over the commit's file changes
ExtractFile(st, k, file_change) ==
    IF ~IsImagePath(Get(file_change, "path", <<>>)) THEN st
    ELSE IF st.store[<<st.commits[k].fullHash, file_change.path>>] # "ok" THEN st
    ELSE StoreRetrieved(st, k, file_change.path,
            WriteArtifact(st.fs, CommitDir(st.commits[k].hash),
                          LocalPath(st.commits[k].hash, PathName(file_change.path))))

RECURSIVE ExtractFiles(_, _, _)
ExtractFiles(st, k, files) ==
    IF files = <<>> THEN st
    ELSE ExtractFiles(ExtractFile(st, k, Head(files)), k, Tail(files))

\* the loop over the commits from the k-th on
RECURSIVE ExtractCommits(_, _)
ExtractCommits(st, k) ==
    IF k > Len(st.commits) THEN st
    ELSE ExtractCommits(
            ExtractFiles(st, k, Get(st.commits[k], "filesChanged", <<>>)), k + 1)

\* image_versions: the returned map; commits: the list afterwards; fs: the
\* output directory afterwards
extract_versioned_artifacts(cmts, store, fs) ==
    ExtractCommits([commits |-> cmts, image_versions |-> <<>>,
                    fs |-> fs, store |-> store], 1)

(***************************************************************************)
(* Specification of the versioned-artifact extractor.  A history of        *)
(* commits with at most MaxChanges file changes in all is laid down, each  *)
(* change with the object store's answer for it (only images are ever      *)
(* asked for, the other files are there); then                             *)
(* extract_versioned_artifacts runs up to MaxRuns times against that       *)
(* history, store and output directory.  ret collects the map each run     *)
(* returned.                                                               *)
(***************************************************************************)
MaxChanges == 3
MaxRuns == 2

VersionedPaths == {<<"a",".","p","n","g">>, <<"i","m","g","/","a",".","p","n","g">>, <<"b",".","j","p","g">>, <<"a",".","p","y">>}

ShowOutcomes == {"ok", "nonzero", "TimeoutExpired"}

ChangeCount ==
    IF commits = <<>> THEN 0
    ELSE LET sizes == [k \in DOMAIN commits |-> Len(commits[k].filesChanged)]
             RECURSIVE Sum(_)
             Sum(k) == IF k = 0 THEN 0 ELSE sizes[k] + Sum(k - 1)
         IN  Sum(Len(commits))

\* the store after git has recorded the commit's files
StoreWith(store, full_hash, paths, outcomes) ==
    LET keys == {<<full_hash, paths[k]>> : k \in DOMAIN paths}
    IN  [key \in DOMAIN store \cup keys |->
            IF key \in keys
            THEN outcomes[CHOOSE k \in DOMAIN paths : paths[k] = key[2]]
            ELSE store[key]]

VersionedTimestamp(n) ==
    <<"2","0","2","4","-","0","1","-","0","1"," ","1","0",":","0","0",":","0">> \o <<<<"1","2","3","4","5","6","7","8","9">>[n]>> \o <<" ","+","0","0","0","0">>

InitVersions ==
    /\ pc = "start"
    /\ config = DEFAULT_CONFIG
    /\ commits = <<>>
    /\ env = [store |-> <<>>, fs |-> [dirs |-> {}, files |-> {}]]
    /\ image_versions = <<>>
    /\ ret = <<>>
    /\ raised = ""
    /\ messages = <<>> /\ pages = <<>> /\ search_index = <<>> /\ artifacts = <<>>
    /\ links = <<>>
    /\ sessions = <<>> /\ images = <<>> /\ manifest = <<>> /\ output = <<>>

\* a commit that changed at least one file enters the history
AddImageCommit ==
    /\ pc = "start"
    /\ \E n \in 1..(MaxChanges - ChangeCount) :
       \E paths \in [1..n -> VersionedPaths], outcomes \in [1..n -> ShowOutcomes] :
          /\ \A i, j \in 1..n : paths[i] = paths[j] => i = j
          /\ \A i \in 1..n : ~IsImagePath(paths[i]) => outcomes[i] = "ok"
          /\ commits' = Append(commits, CommitRecord(Len(commits) + 1,
                                    VersionedTimestamp(Len(commits) + 1), paths))
          /\ env' = [env EXCEPT !.store =
                        StoreWith(@, CommitRecord(Len(commits) + 1, <<>>, paths).fullHash,
                                  paths, outcomes)]
    /\ UNCHANGED <<pc, config, messages, pages, search_index, artifacts,
                   image_versions, ret, raised, links,
                   sessions, images, manifest, output>>

\* one call of extract_versioned_artifacts on the history
ExtractVersionedArtifacts ==
    /\ Len(ret) < MaxRuns
    /\ LET r == extract_versioned_artifacts(commits, env.store, env.fs)
       IN  /\ commits' = r.commits
           /\ image_versions' = r.image_versions
           /\ ret' = Append(ret, r.image_versions)
           /\ env' = [env EXCEPT !.fs = r.fs]
    /\ pc' = "extracted"
    /\ UNCHANGED <<config, messages, pages, search_index, artifacts, raised, links,
                   sessions, images, manifest, output>>

NextVersions == AddImageCommit \/ ExtractVersionedArtifacts

SpecVersions == InitVersions /\ [][NextVersions]_vars

(***************************************************************************)
(* Properties of the versioned-artifact extractor.                         *)
(***************************************************************************)
\* C8: extract_versioned_artifacts is idempotent: a second run against the
\* same commit list and the same object store returns a map identical to
\* the first run's (same keys, same entries, same order).
C8_ExtractionIdempotent ==
    \A i, j \in DOMAIN ret : ret[i] = ret[j]

\* two runs over a history where one image name has two versions, another
\* retrieval failed, and the first run left its records on a commit
C8_Witness ==
    /\ pc = "extracted"
    /\ Len(ret) = 2
    /\ \E k \in DOMAIN ret[2] : Len(ret[2][k].versions) = 2
    /\ \E key \in DOMAIN env.store : IsImagePath(key[2]) /\ env.store[key] # "ok"
    /\ \E k \in DOMAIN commits :
          Len(Get(commits[k], "versionedArtifacts", <<>>)) >= 2

(***************************************************************************)
(* get_git_commits.  subprocess.run either completes, with an exit status  *)
(* and the text git printed, or raises.                                    *)
(***************************************************************************)
HashPrefixLen == 7
HeaderDelimiters == 3

\* line.count(ch)
Count(line, ch) == Cardinality({k \in 1..Len(line) : line[k] = ch})

\* s.split(sep, maxsplit)
RECURSIVE SplitMax(_, _, _)
SplitMax(s, sep, maxsplit) ==
    IF maxsplit = 0 \/ FindFrom(s, <<sep>>, 1) = 0 THEN <<s>>
    ELSE <<SubSeq(s, 1, FindFrom(s, <<sep>>, 1) - 1)>>
            \o SplitMax(SubSeq(s, FindFrom(s, <<sep>>, 1) + 1, Len(s)), sep, maxsplit - 1)

\* the except clause of get_git_commits
CaughtErrors == {"TimeoutExpired", "FileNotFoundError"}

\* "|" in line and line.count("|") >= 3
IsHeaderLine(line) == Count(line, "|") >= HeaderDelimiters

\* the record a header line starts
NewCommit(parts) ==
    [hash |-> Take(parts[1], HashPrefixLen),
     fullHash |-> parts[1],
     timestamp |-> Strip(parts[2]),
     message |-> Strip(parts[3]),
     author |-> IF Len(parts) > 3 THEN Strip(parts[4]) ELSE <<>>,
     filesChanged |-> <<>>,
     relatedMessages |-> <<>>,
     relatedArtifacts |-> <<>>]

\* current_commit["filesChanged"].append(...) when the line has a tab
AttachFile(current_commit, parts) ==
    IF Len(parts) >= 2
    THEN [current_commit EXCEPT
            !.filesChanged = Append(@, [status |-> parts[1], path |-> parts[2]])]
    ELSE current_commit

\* one pass of the loop over the lines; st.current_commit is None (<<>>) or
\* holds the commit under construction
ParseLogLine(st, line) ==
    IF IsHeaderLine(line)
    THEN [commits |-> st.commits \o st.current_commit,
          current_commit |-> <<NewCommit(SplitMax(line, "|", 3))>>]
    ELSE IF st.current_commit # <<>> /\ Strip(line) # <<>>
    THEN [st EXCEPT !.current_commit =
            <<AttachFile(st.current_commit[1], Split(line, "\t"))>>]
    ELSE st

RECURSIVE ParseLogLines(_, _)
ParseLogLines(st, lines) ==
    IF lines = <<>> THEN st
    ELSE ParseLogLines(ParseLogLine(st, Head(lines)), Tail(lines))

\* lines 297-327: the commits read from what git printed
FlushCommitsAtHeaderOnly(st) == st.commits

FlushCommits(st) == st.commits \o st.current_commit

ParseLog(stdout) ==
    FlushCommits(ParseLogLines([commits |-> <<>>, current_commit |-> <<>>],
                               Split(stdout, "\n")))

\* commits: the returned list (none when raised # "")
get_git_commits(git) ==
    IF git.kind = "raised"
    THEN IF git.exc \in CaughtErrors
         THEN [commits |-> <<>>, raised |-> ""]
         ELSE [commits |-> <<>>, raised |-> git.exc]
    ELSE [commits |-> ParseLog(git.stdout), raised |-> ""]

(***************************************************************************)
(* Specification of the commit extractor.  The git query has one of the    *)
(* outcomes subprocess.run can have: it completes with status 0, it        *)
(* completes with a failure status (what was printed before the failure    *)
(* stays in stdout), or it raises.  A completed query has printed at most  *)
(* MaxLogLines lines.  Then get_git_commits runs once.                     *)
(***************************************************************************)
MaxLogLines == 4

\* what subprocess.run raises: the timeout, a missing binary or directory,
\* a binary or directory the process may not use, a cwd that is a file
SubprocessErrors ==
    {"TimeoutExpired", "FileNotFoundError", "PermissionError", "NotADirectoryError"}

ExitStatuses == {0, 128}

GitOutcomes ==
    {[kind |-> "completed", returncode |-> rc, stdout |-> <<>>, printed |-> 0] :
        rc \in ExitStatuses}
    \cup {[kind |-> "raised", exc |-> e] : e \in SubprocessErrors}

\* header lines (the second with a "|" in its subject), name-status lines
\* (the last for a file with "|" in its name), the blank separator, and a
\* line that is neither
LogLines ==
    {<<"c","0","f","f","e","e","1","2","a","b","|","2","0","2","4","-","0","1","-","0","1"," ","1","0",":","0","0",":","0","0"," ","+","0","0","0","0","|","f","i","x","|","d","e","v">>,
     <<"d","0","0","d","f","e","e","d","3","4","|","2","0","2","4","-","0","1","-","0","1"," ","1","0",":","3","0",":","0","0"," ","+","0","0","0","0","|","a","|","b","|","d","e","v">>,
     <<"M", "\t">> \o <<"a",".","p","y">>,
     <<"A", "\t">> \o <<"i","m","g","/","a",".","p","n","g">>,
     <<"R","1","0","0">> \o <<"\t">> \o <<"o","l","d",".","p","y">> \o <<"\t">> \o <<"n","e","w",".","p","y">>,
     <<"M", "\t">> \o <<"a","|","b","|","c","|","d">>,
     <<>>,
     <<"x","|","y">>}

InitLog ==
    /\ pc = "start"
    /\ config = DEFAULT_CONFIG
    /\ \E outcome \in GitOutcomes : env = [git |-> outcome]
    /\ commits = <<>>
    /\ ret = <<>>
    /\ raised = ""
    /\ messages = <<>> /\ pages = <<>> /\ search_index = <<>> /\ artifacts = <<>>
    /\ image_versions = <<>> /\ links = <<>>
    /\ sessions = <<>> /\ images = <<>> /\ manifest = <<>> /\ output = <<>>

\* git prints one more line of the log
GitPrintsLine ==
    /\ pc = "start"
    /\ env.git.kind = "completed"
    /\ env.git.printed < MaxLogLines
    /\ \E line \in LogLines :
          env' = [env EXCEPT
                     !.git.stdout = IF env.git.printed = 0 THEN line
                                    ELSE @ \o <<"\n">> \o line,
                     !.git.printed = @ + 1]
    /\ UNCHANGED <<pc, config, messages, pages, search_index, artifacts, commits,
                   image_versions, ret, raised, links,
                   sessions, images, manifest, output>>

\* one call of get_git_commits
GetGitCommits ==
    /\ pc = "start"
    /\ LET r == get_git_commits(env.git)
       IN  /\ ret' = r.commits
           /\ commits' = r.commits
           /\ raised' = r.raised
    /\ pc' = "listed"
    /\ UNCHANGED <<config, messages, pages, search_index, artifacts,
                   image_versions, env, links,
                   sessions, images, manifest, output>>

NextLog == GitPrintsLine \/ GetGitCommits

SpecLog == InitLog /\ [][NextLog]_vars

(***************************************************************************)
(* Properties of the commit extractor.                                     *)
(***************************************************************************)
\* the query could not be run, or ran and exited with a failure status
GitFailed ==
    env.git.kind = "raised" \/ env.git.returncode # 0

\* C10: for any failure to invoke version control (a timeout, a missing
\* git binary, a query that otherwise fails to run or exits with a non-zero
\* status) get_git_commits returns an empty commit list and raises no error.
C10_FailureYieldsNoCommits ==
    (pc = "listed" /\ GitFailed) => (raised = "" /\ ret = <<>>)

(***************************************************************************)
(* Ordering of text and the stable sort of sorted() and list.sort().       *)
(***************************************************************************)
\* the characters of the model in code-point order
Ascii ==
    <<"\t", "\n", "\r", " ", "+", "-", ".", "/",
      "0", "1", "2", "3", "4", "5", "6", "7", "8", "9", ":", "<", ">",
      "A", "B", "C", "D", "E", "F", "G", "H", "I", "J", "K", "L", "M",
      "N", "O", "P", "Q", "R", "S", "T", "U", "V", "W", "X", "Y", "Z", "_",
      "a", "b", "c", "d", "e", "f", "g", "h", "i", "j", "k", "l", "m",
      "n", "o", "p", "q", "r", "s", "t", "u", "v", "w", "x", "y", "z", "|">>

CodePoint(c) == CHOOSE k \in DOMAIN Ascii : Ascii[k] = c

\* a < b for str
TextLess(a, b) ==
    \E k \in 1..(Len(b)) :
        /\ \A j \in 1..(k - 1) : j <= Len(a) /\ a[j] = b[j]
        /\ k > Len(a) \/ CodePoint(a[k]) < CodePoint(b[k])

\* where the element at position i goes: after every smaller key and after
\* every equal key that stood before it
Rank(keys, i) ==
    Cardinality({j \in DOMAIN keys :
                    TextLess(keys[j], keys[i]) \/ (keys[j] = keys[i] /\ j < i)}) + 1

\* sorted(items, key=...) where keys[i] is the key of items[i]
SortedBy(items, keys) ==
    [r \in DOMAIN items |-> items[CHOOSE i \in DOMAIN items : Rank(keys, i) = r]]

(***************************************************************************)
(* get_all_sessions.  project is the Claude project directory as the call  *)
(* finds it: whether it exists, the decoded sessions-index.json (None when *)
(* there is no such file), and its *.jsonl files in the order glob yields  *)
(* them, each with its stem and the isoformat text of its ctime and mtime. *)
(* An optional value is a sequence of at most one element.                 *)
(***************************************************************************)
FirstPromptLen == 100

ProjectDir == <<"/", "p">>

\* entry.get(key) for a text value: None or the value
Optional(entry, key) == IF key \in DOMAIN entry THEN <<entry[key]>> ELSE <<>>

\* the descriptor of an index entry
IndexedSession(entry) ==
    [id |-> entry.sessionId,
     path |-> entry.fullPath,
     created |-> Optional(entry, "created"),
     modified |-> Optional(entry, "modified"),
     messageCount |-> Get(entry, "messageCount", 0),
     firstPrompt |-> Take(Get(entry, "firstPrompt", <<>>), FirstPromptLen),
     branch |-> Get(entry, "gitBranch", <<"u","n","k","n","o","w","n">>)]

\* the descriptor of a file the index does not list
ScannedSession(jsonl) ==
    [id |-> jsonl.stem,
     path |-> ProjectDir \o <<"/">> \o jsonl.stem \o <<".","j","s","o","n","l">>,
     created |-> <<jsonl.ctime>>,
     modified |-> <<jsonl.mtime>>]

\* the loop over index.get("entries", []); st carries sessions, indexed_ids
\* and the exception that ends the loop
IndexEntryStep(st, entry) ==
    IF "sessionId" \notin DOMAIN entry \/ "fullPath" \notin DOMAIN entry
    THEN [st EXCEPT !.raised = "KeyError"]
    ELSE [st EXCEPT !.indexed_ids = @ \cup {entry.sessionId},
                    !.sessions = Append(@, IndexedSession(entry))]

RECURSIVE IndexEntries(_, _)
IndexEntries(st, entries) ==
    IF entries = <<>> \/ st.raised # "" THEN st
    ELSE IndexEntries(IndexEntryStep(st, Head(entries)), Tail(entries))

ReadIndex(st, index) ==
    IF index = <<>> THEN st
    ELSE IF index[1] = NotJson THEN [st EXCEPT !.raised = "JSONDecodeError"]
    ELSE IndexEntries(st, Get(index[1], "entries", <<>>))

\* the loop over project_dir.glob("*.jsonl")
ScanStep(st, jsonl) ==
    IF jsonl.stem \notin st.indexed_ids
    THEN [st EXCEPT !.sessions = Append(@, ScannedSession(jsonl))]
    ELSE st

RECURSIVE ScanFiles(_, _)
ScanFiles(st, files) ==
    IF files = <<>> \/ st.raised # "" THEN st
    ELSE ScanFiles(ScanStep(st, Head(files)), Tail(files))

\* sorted(sessions, key=lambda s: s.get("created", "")): comparing None
\* with anything is a TypeError
SortSessions(st) ==
    IF st.raised # "" THEN [sessions |-> <<>>, raised |-> st.raised]
    ELSE IF Len(st.sessions) >= 2 /\ \E k \in DOMAIN st.sessions : st.sessions[k].created = <<>>
    THEN [sessions |-> <<>>, raised |-> "TypeError"]
    ELSE [sessions |-> SortedBy(st.sessions,
                         [k \in DOMAIN st.sessions |-> Join(<<>>, st.sessions[k].created)]),
          raised |-> ""]

\* sessions: the returned list (none when raised # "")
get_all_sessions(project) ==
    IF ~project.exists THEN [sessions |-> <<>>, raised |-> ""]
    ELSE SortSessions(
            ScanFiles(ReadIndex([sessions |-> <<>>, indexed_ids |-> {}, raised |-> ""],
                                project.index),
                      project.files))

(***************************************************************************)
(* get_images.  folders gives, for each folder of the repository that      *)
(* exists, its *.png files with name, stem, the isoformat text of the      *)
(* mtime and the size.                                                     *)
(***************************************************************************)
ImageRecord(img) ==
    [id |-> <<"i","m","g","_">> \o img.stem,
     name |-> img.name,
     path |-> <<"i","m","a","g","e","s","/">> \o img.name,
     timestamp |-> img.mtime,
     fileSize |-> img.size]

\* for img in sorted(folder_path.glob("*.png"))
FolderImages(files) ==
    [k \in DOMAIN files |->
        ImageRecord(SortedBy(files, [j \in DOMAIN files |-> files[j].name])[k])]

RECURSIVE ImagesIn(_, _)
ImagesIn(image_folders, folders) ==
    IF image_folders = <<>> THEN <<>>
    ELSE (IF Head(image_folders) \in DOMAIN folders
          THEN FolderImages(folders[Head(image_folders)]) ELSE <<>>)
            \o ImagesIn(Tail(image_folders), folders)

get_images(folders, cfg) == ImagesIn(cfg.image_folders, folders)

(***************************************************************************)
(* generate_manifest                                                       *)
(***************************************************************************)
CountRole(msgs, role) == Cardinality({k \in DOMAIN msgs : msgs[k].role = role})

\* max((s.get("modified", "") for s in sessions), default=""): an optional
\* text, the descriptor of an index entry without the field holding None
LastModified(sess) ==
    IF sess = <<>> THEN <<<<>>>>
    ELSE LET keys == [k \in DOMAIN sess |-> Join(<<>>, sess[k].modified)]
             last == CHOOSE k \in DOMAIN keys : \A j \in DOMAIN keys : ~TextLess(keys[k], keys[j])
         IN  IF sess[last].modified = <<>> THEN <<>> ELSE <<keys[last]>>

\* max() comparing None with another value is a TypeError
ManifestError(sess) ==
    IF Len(sess) >= 2 /\ \E k \in DOMAIN sess : sess[k].modified = <<>>
    THEN "TypeError" ELSE ""

\* the manifest when ManifestError(sess) = ""
generate_manifest(msgs, cmts, imgs, sess, project_config, arts, cfg, now) ==
    [version |-> <<"1",".","0">>,
     project |-> project_config,
     generated |-> now,
     stats |-> [totalMessages |-> Len(msgs),
                userMessages |-> CountRole(msgs, <<"u","s","e","r">>),
                assistantMessages |-> CountRole(msgs, <<"a","s","s","i","s","t","a","n","t">>),
                totalArtifacts |-> Cardinality(DOMAIN arts),
                totalCommits |-> Len(cmts),
                totalImages |-> Len(imgs),
                sessions |-> Len(sess)],
     pagination |-> [messagesPerPage |-> cfg.messages_per_page,
                     totalPages |-> (Len(msgs) + cfg.messages_per_page - 1)
                                        \div cfg.messages_per_page],
     sources |-> [sessions |-> [k \in DOMAIN sess |-> sess[k].id],
                  lastModified |-> LastModified(sess)]]

(***************************************************************************)
(* build.  disk gives what is at a session path: nothing ("missing"), a    *)
(* file open() refuses ("unreadable"), or a file with its lines.           *)
(***************************************************************************)
SessionFile(disk, path) == Get(disk, path, [kind |-> "missing"])

\* all_messages.extend(messages) after parse_transcript returned
ExtendMessages(st, parsed) ==
    IF parsed.raised # ""
    THEN [st EXCEPT !.raised = parsed.raised, !.artifacts = parsed.artifacts]
    ELSE [st EXCEPT !.messages = @ \o parsed.messages, !.artifacts = parsed.artifacts]

\* one pass of the loop over the sessions: if session["path"].exists(): ...
ParseSession(st, file, cfg) ==
    IF file.kind = "missing" THEN st
    ELSE IF file.kind = "unreadable" THEN [st EXCEPT !.raised = "PermissionError"]
    ELSE ExtendMessages(st, parse_transcript(file.lines, cfg, st.artifacts))

RECURSIVE ParseSessions(_, _, _, _)
ParseSessions(st, sess, disk, cfg) ==
    IF sess = <<>> \/ st.raised # "" THEN st
    ELSE ParseSessions(ParseSession(st, SessionFile(disk, Head(sess).path), cfg),
                       Tail(sess), disk, cfg)

\* all_messages.sort(key=lambda m: m.get("timestamp", ""))
SortMessagesBySession(msgs) ==
    SortedBy(msgs, [k \in DOMAIN msgs |-> Get(msgs[k], "sessionId", <<>>)])

SortMessages(msgs) ==
    SortedBy(msgs, [k \in DOMAIN msgs |-> Get(msgs[k], "timestamp", <<>>)])

\* str(n) for n >= 0
RECURSIVE Str(_)
Str(n) ==
    IF n < 10 THEN <<<<"0","1","2","3","4","5","6","7","8","9">>[n + 1]>>
    ELSE Str(n \div 10) \o Str(n % 10)

PageNumWidth == 3

\* s.zfill(width)
ZFill(s, width) == [k \in 1..(width - Len(s)) |-> "0"] \o s

\* f"messages-{page_num}.json"
PageFile(page) ==
    [name |-> <<"m","e","s","s","a","g","e","s","-">> \o ZFill(Str(page.page), PageNumWidth) \o <<".","j","s","o","n">>,
     content |-> page]

\* the files build writes under data/, in the order it writes them
DataFiles(man, pgs, cmts, arts, imgs, versions, index) ==
    <<[name |-> <<"m","a","n","i","f","e","s","t",".","j","s","o","n">>, content |-> man]>>
    \o [k \in DOMAIN pgs |-> PageFile(pgs[k])]
    \o <<[name |-> <<"c","o","m","m","i","t","s",".","j","s","o","n">>, content |-> [version |-> <<"1",".","0">>, commits |-> cmts]],
         [name |-> <<"a","r","t","i","f","a","c","t","s",".","j","s","o","n">>, content |-> [version |-> <<"1",".","0">>, artifacts |-> arts]],
         [name |-> <<"i","m","a","g","e","s",".","j","s","o","n">>, content |-> [version |-> <<"1",".","0">>, images |-> imgs]],
         [name |-> <<"i","m","a","g","e","-","v","e","r","s","i","o","n","s",".","j","s","o","n">>,
          content |-> [version |-> <<"1",".","0">>, imageVersions |-> versions]],
         [name |-> <<"i","n","d","e","x",".","j","s","o","n">>, content |-> index]>>

Templates == <<<<"c","h","a","t",".","h","t","m","l">>, <<"i","n","d","e","x",".","h","t","m","l">>, <<"s","t","y","l","e","s",".","c","s","s">>, <<"a","p","p",".","j","s">>>>

\* _copy_templates: the templates that exist are copied
CopiedTemplates(present) ==
    SelectSeq(Templates, LAMBDA t : t \in present)

(***************************************************************************)
(* Specification of build.  The project holds up to MaxSessions sessions,  *)
(* the later ones created earlier; each is listed in the index or found by *)
(* the scan, and its file is missing, unreadable, or holds a transcript    *)
(* (which may end in a line that is a JSON array).  The git query answers  *)
(* with a two-commit log, or git is missing, or may not be executed; the   *)
(* object store gives or refuses the image of the first commit.  build     *)
(* runs once, stage by stage.                                              *)
(***************************************************************************)
MaxSessions == 2

SessionIds == <<<<"s","1">>, <<"s","2">>, <<"s","3">>, <<"s","4">>>>

SessionStamps ==
    <<<<"2","0","2","4","-","0","1","-","0","4","T","0","9",":","0","0",":","0","0",".","0","0","0","Z">>, <<"2","0","2","4","-","0","1","-","0","3","T","0","9",":","0","0",":","0","0",".","0","0","0","Z">>,
      <<"2","0","2","4","-","0","1","-","0","2","T","0","9",":","0","0",":","0","0",".","0","0","0","Z">>, <<"2","0","2","4","-","0","1","-","0","1","T","0","9",":","0","0",":","0","0",".","0","0","0","Z">>>>

SessionPath(i) == ProjectDir \o <<"/">> \o SessionIds[i] \o <<".","j","s","o","n","l">>

BuildEntry(i, k, role, second, items) ==
    [type |-> role,
     uuid |-> SessionIds[i] \o <<LowerLetters[k]>>,
     timestamp |-> <<"2","0","2","4","-","0","1","-","0","1","T","1","0",":","0","0",":","0">> \o <<second>> \o <<".","0","0","0","Z">>,
     sessionId |-> SessionIds[i],
     message |-> [content |-> items]]

ReadItem(path) ==
    [type |-> <<"t","o","o","l","_","u","s","e">>, id |-> <<"t","o","o","l","u","_","1">>, name |-> <<"R","e","a","d">>,
     input |-> [file_path |-> path]]

\* the transcript of the i-th session
Transcript(i) ==
    IF i % 2 = 1
    THEN <<BuildEntry(i, 1, <<"a","s","s","i","s","t","a","n","t">>, "5",
                <<[type |-> <<"t","e","x","t">>, text |-> <<"F","i","x"," ","i","t">>], ReadItem(<<"/","r","e","p","o","/","a",".","p","y">>)>>),
           BuildEntry(i, 2, <<"u","s","e","r">>, "1", <<[type |-> <<"t","e","x","t">>, text |-> <<"H","i">>]>>)>>
    ELSE <<BuildEntry(i, 1, <<"u","s","e","r">>, "3", <<[type |-> <<"t","e","x","t">>, text |-> <<"G","o"," ","o","n">>]>>),
           NotJson,
           BuildEntry(i, 2, <<"a","s","s","i","s","t","a","n","t">>, "2",
                <<[type |-> <<"t","h","i","n","k","i","n","g">>, thinking |-> <<"h","m">>]>>),
           BuildEntry(i, 3, <<"a","s","s","i","s","t","a","n","t">>, "2", <<ReadItem(<<"/","r","e","p","o","/","i","m","g","/","a",".","p","n","g">>)>>)>>

SessionFiles(i) ==
    {[kind |-> "missing"], [kind |-> "unreadable"],
     [kind |-> "file", lines |-> Transcript(i)],
     [kind |-> "file", lines |-> Append(Transcript(i), JsonArray)]}

\* the index entry of the i-th session
SessionEntry(i) ==
    [sessionId |-> SessionIds[i], fullPath |-> SessionPath(i),
     created |-> SessionStamps[i], modified |-> SessionStamps[i],
     messageCount |-> 2, firstPrompt |-> <<"H","i">>, gitBranch |-> <<"m","a","i","n">>]

\* the jsonl file of the i-th session as glob reports it
SessionScan(i) ==
    [stem |-> SessionIds[i], ctime |-> Take(SessionStamps[i], 19),
     mtime |-> Take(SessionStamps[i], 19)]

\* the project directory with n sessions, those in listed being in the
\* index and those in present having their file in the directory
ProjectWith(n, listed, present) ==
    [exists |-> TRUE,
     index |-> IF listed = {} THEN <<>>
               ELSE <<[entries |-> SelectSeq([i \in 1..n |-> SessionEntry(i)],
                                             LAMBDA e : \E i \in listed : e = SessionEntry(i))]>>,
     files |-> SelectSeq([i \in 1..n |-> SessionScan(i)],
                         LAMBDA f : \E i \in present : f = SessionScan(i))]

BuildLog ==
    <<"c","0","f","f","e","e","1","2","a","b","|","2","0","2","4","-","0","1","-","0","1"," ","1","0",":","3","0",":","0","0"," ","+","0","0","0","0","|","f","i","x","|","d","e","v">> \o <<"\n", "\n">>
    \o <<"M", "\t">> \o <<"a",".","p","y">> \o <<"\n">>
    \o <<"A", "\t">> \o <<"i","m","g","/","a",".","p","n","g">> \o <<"\n", "\n">>
    \o <<"d","0","0","d","f","e","e","d","3","4","|","2","0","2","4","-","0","1","-","0","1"," ","1","2",":","0","0",":","0","0"," ","+","0","0","0","0","|","m","o","r","e","|","d","e","v">> \o <<"\n", "\n">>
    \o <<"M", "\t">> \o <<"i","m","g","/","a",".","p","n","g">> \o <<"\n">>

BuildGitOutcomes ==
    {[kind |-> "completed", returncode |-> 0, stdout |-> BuildLog],
     [kind |-> "raised", exc |-> "FileNotFoundError"],
     [kind |-> "raised", exc |-> "PermissionError"]}

BuildStore(outcome) ==
    (<<<<"c","0","f","f","e","e","1","2","a","b">>, <<"i","m","g","/","a",".","p","n","g">>>> :> outcome)
        @@ (<<<<"d","0","0","d","f","e","e","d","3","4">>, <<"i","m","g","/","a",".","p","n","g">>>> :> "ok")

BuildFolders ==
    [explore |-> <<[name |-> <<"b",".","p","n","g">>, stem |-> <<"b">>,
                    mtime |-> <<"2","0","2","4","-","0","1","-","0","1","T","0","8",":","0","0",":","0","0">>, size |-> 2],
                   [name |-> <<"a",".","p","n","g">>, stem |-> <<"a">>,
                    mtime |-> <<"2","0","2","4","-","0","1","-","0","1","T","0","8",":","3","0",":","0","0">>, size |-> 1]>>]

BuildPageSizes == {2, 3, DefaultMessagesPerPage}

ProjectConfig ==
    [name |-> <<"r","e","p","o">>, description |-> <<"A","I","-","a","s","s","i","s","t","e","d"," ","d","e","v","e","l","o","p","m","e","n","t"," ","d","o","c","u","m","e","n","t","a","t","i","o","n">>,
     repository |-> <<>>, branch |-> <<"m","a","i","n">>]

InitBuild ==
    /\ pc = "start"
    /\ \E size \in BuildPageSizes :
          config = [DEFAULT_CONFIG EXCEPT !.messages_per_page = size]
    /\ \E n \in 0..MaxSessions :
       \E listed \in SUBSET (1..n), files \in [1..n -> UNION {SessionFiles(i) : i \in 1..4}],
          git \in BuildGitOutcomes, outcome \in {"ok", "nonzero"} :
          /\ \A i \in 1..n : files[i] \in SessionFiles(i)
          /\ \A i \in 1..n : files[i].kind = "missing" => i \in listed
          /\ env = [project |-> ProjectWith(n, listed,
                                             {i \in 1..n : files[i].kind # "missing"}),
                    disk |-> [path \in {SessionPath(i) : i \in 1..n} |->
                                files[CHOOSE i \in 1..n : SessionPath(i) = path]],
                    git |-> git,
                    store |-> BuildStore(outcome),
                    fs |-> [dirs |-> {}, files |-> {}],
                    folders |-> BuildFolders,
                    templates |-> {<<"i","n","d","e","x",".","h","t","m","l">>, <<"a","p","p",".","j","s">>},
                    now |-> <<"2","0","2","4","-","0","1","-","0","5","T","0","0",":","0","0",":","0","0">>]
    /\ messages = <<>> /\ commits = <<>> /\ artifacts = <<>>
    /\ pages = <<>> /\ search_index = <<>> /\ image_versions = <<>>
    /\ ret = <<>> /\ raised = "" /\ links = <<>>
    /\ sessions = <<>> /\ images = <<>> /\ manifest = <<>> /\ output = <<>>

\* the stage raised: nothing of build runs after it
Abort(exc) ==
    /\ pc' = "aborted"
    /\ raised' = exc

\* sessions = self.get_all_sessions()
BuildDiscover ==
    /\ pc = "start"
    /\ LET r == get_all_sessions(env.project)
       IN  IF r.raised # ""
           THEN Abort(r.raised) /\ UNCHANGED sessions
           ELSE pc' = "discovered" /\ sessions' = r.sessions /\ UNCHANGED raised
    /\ UNCHANGED <<config, messages, pages, search_index, artifacts, commits,
                   image_versions, env, ret, links, images, manifest, output>>

\* the loop over the sessions that fills all_messages
BuildParse ==
    /\ pc = "discovered"
    /\ LET st == ParseSessions([messages |-> <<>>, artifacts |-> artifacts, raised |-> ""],
                               sessions, env.disk, config)
       IN  /\ artifacts' = st.artifacts
           /\ IF st.raised # ""
              THEN Abort(st.raised) /\ UNCHANGED messages
              ELSE pc' = "parsed" /\ messages' = st.messages /\ UNCHANGED raised
    /\ UNCHANGED <<config, pages, search_index, commits, image_versions, env, ret,
                   links, sessions, images, manifest, output>>

\* all_messages.sort(...)
BuildSort ==
    /\ pc = "parsed"
    /\ messages' = SortMessages(messages)
    /\ pc' = "sorted"
    /\ UNCHANGED <<config, pages, search_index, artifacts, commits, image_versions,
                   env, ret, raised, links, sessions, images, manifest, output>>

\* commits = self.get_git_commits()
BuildCommits ==
    /\ pc = "sorted"
    /\ LET r == get_git_commits(env.git)
       IN  IF r.raised # ""
           THEN Abort(r.raised) /\ UNCHANGED commits
           ELSE pc' = "listed" /\ commits' = r.commits /\ UNCHANGED raised
    /\ UNCHANGED <<config, messages, pages, search_index, artifacts, image_versions,
                   env, ret, links, sessions, images, manifest, output>>

\* self.match_commits_to_messages(all_messages, commits)
BuildMatch ==
    /\ pc = "listed"
    /\ LET st == match_commits_to_messages(messages, commits, artifacts, config)
       IN  /\ messages' = st.messages
           /\ commits' = st.commits
           /\ links' = st.links
    /\ pc' = "matched"
    /\ UNCHANGED <<config, pages, search_index, artifacts, image_versions, env, ret,
                   raised, sessions, images, manifest, output>>

\* images = self.get_images()
BuildImages ==
    /\ pc = "matched"
    /\ images' = get_images(env.folders, config)
    /\ pc' = "images"
    /\ UNCHANGED <<config, messages, pages, search_index, artifacts, commits,
                   image_versions, env, ret, raised, links, sessions, manifest, output>>

\* image_versions = self.extract_versioned_artifacts(commits)
BuildVersions ==
    /\ pc = "images"
    /\ LET r == extract_versioned_artifacts(commits, env.store, env.fs)
       IN  /\ commits' = r.commits
           /\ image_versions' = r.image_versions
           /\ env' = [env EXCEPT !.fs = r.fs]
    /\ pc' = "versions"
    /\ UNCHANGED <<config, messages, pages, search_index, artifacts, ret, raised,
                   links, sessions, images, manifest, output>>

\* search_index = self.build_search_index(all_messages)
BuildIndex ==
    /\ pc = "versions"
    /\ search_index' = build_search_index(messages, config)
    /\ pc' = "indexed"
    /\ UNCHANGED <<config, messages, pages, artifacts, commits, image_versions, env,
                   ret, raised, links, sessions, images, manifest, output>>

\* pages = self.paginate_messages(all_messages)
BuildPaginate ==
    /\ pc = "indexed"
    /\ pages' = paginate_messages(messages, config)
    /\ pc' = "paginated"
    /\ UNCHANGED <<config, messages, search_index, artifacts, commits, image_versions,
                   env, ret, raised, links, sessions, images, manifest, output>>

\* manifest = self.generate_manifest(...)
BuildManifest ==
    /\ pc = "paginated"
    /\ IF ManifestError(sessions) # ""
       THEN Abort(ManifestError(sessions)) /\ UNCHANGED manifest
       ELSE /\ pc' = "manifest"
            /\ manifest' = generate_manifest(messages, commits, images, sessions,
                                ProjectConfig, artifacts, config, env.now)
            /\ UNCHANGED raised
    /\ UNCHANGED <<config, messages, pages, search_index, artifacts, commits,
                   image_versions, env, ret, links, sessions, images, output>>

\* the data files are written, the templates copied, the stats returned
BuildWrite ==
    /\ pc = "manifest"
    /\ output' = DataFiles(manifest, pages, commits, artifacts, images,
                           image_versions, search_index)
                    \o [k \in DOMAIN CopiedTemplates(env.templates) |->
                            [name |-> CopiedTemplates(env.templates)[k],
                             content |-> "template"]]
    /\ ret' = manifest.stats
    /\ pc' = "done"
    /\ UNCHANGED <<config, messages, pages, search_index, artifacts, commits,
                   image_versions, env, raised, links, sessions, images, manifest>>

NextBuild ==
    \/ BuildDiscover \/ BuildParse \/ BuildSort \/ BuildCommits \/ BuildMatch
    \/ BuildImages \/ BuildVersions \/ BuildIndex \/ BuildPaginate
    \/ BuildManifest \/ BuildWrite

SpecBuild == InitBuild /\ [][NextBuild]_vars

(***************************************************************************)
(* Properties of build.                                                    *)
(***************************************************************************)
Terminated == pc \in {"done", "aborted"}

\* the transcript file is there but open() or the parse of it raises
SessionFails(file) ==
    \/ file.kind = "unreadable"
    \/ file.kind = "file" /\ parse_transcript(file.lines, config, <<>>).raised # ""

\* the uuids of the messages the sessions that can be read and parsed hold
ExpectedUuids ==
    UNION {{m.uuid : m \in Range(parse_transcript(file.lines, config, <<>>).messages)} :
            file \in {f \in Range(env.disk) : f.kind = "file" /\ ~SessionFails(f)}}

\* the git query ran or failed in a way get_git_commits absorbs
GitAbsorbed == env.git.kind = "raised" => env.git.exc \in CaughtErrors

\* C11: a session whose transcript file exists but cannot be read or parsed
\* contributes no messages and never aborts the build: every later stage
\* runs to completion with the messages of the other sessions.
C11_SessionFailureAbsorbed ==
    (Terminated /\ GitAbsorbed) =>
        /\ pc = "done"
        /\ {messages[k].uuid : k \in DOMAIN messages} = ExpectedUuids

(***************************************************************************)
(* Properties of the commit-log parser.                                    *)
(***************************************************************************)
\* the lines git printed
PrintedLines == Split(env.git.stdout, "\n")

\* positions of the header lines: the lines with at least three "|"
HeaderPositions(lines) ==
    {k \in DOMAIN lines : Count(lines[k], "|") >= HeaderDelimiters}

\* the header line that most recently precedes line k (0: none)
OwnerOf(headers, k) ==
    IF \E h \in headers : h < k
    THEN CHOOSE h \in headers : h < k /\ \A g \in headers : g < k => g <= h
    ELSE 0

\* a file-change line: not a header, tab-delimited, not blank
IsFileChangeLine(line) ==
    /\ Count(line, "|") < HeaderDelimiters
    /\ \E k \in DOMAIN line : line[k] = "\t"
    /\ \E k \in DOMAIN line : line[k] \notin Whitespace

\* positions of the file-change lines that follow header line h and precede
\* the next header line
ChangesOf(lines, headers, h) ==
    {k \in DOMAIN lines : IsFileChangeLine(lines[k]) /\ OwnerOf(headers, k) = h}

\* the n-th smallest member of a set of positions
NthOf(S, n) == CHOOSE k \in S : Cardinality({j \in S : j < k}) = n - 1

\* the text of line before its first occurrence of ch
UpTo(line, ch) ==
    IF \E k \in DOMAIN line : line[k] = ch
    THEN SubSeq(line, 1, (CHOOSE k \in DOMAIN line :
                            line[k] = ch /\ \A j \in 1..(k - 1) : line[j] # ch) - 1)
    ELSE line

\* the text of line after its first occurrence of ch
After(line, ch) == SubSeq(line, Len(UpTo(line, ch)) + 2, Len(line))

\* C12: for any text git log prints, get_git_commits returns one commit per
\* header line (a line with at least three "|"), in input order and
\* including the last commit whether or not a blank line follows it; every
\* tab-delimited file-change line is attached, in order, to the most
\* recently started commit and to no other; file-change lines before the
\* first header are dropped.
C12_LogParsedPerHeader ==
    (pc = "listed" /\ env.git.kind = "completed") =>
        LET lines == PrintedLines
            headers == HeaderPositions(lines)
        IN  /\ Len(ret) = Cardinality(headers)
            /\ \A n \in DOMAIN ret :
                  LET h == NthOf(headers, n)
                      changes == ChangesOf(lines, headers, h)
                  IN  /\ ret[n].fullHash = UpTo(lines[h], "|")
                      /\ Len(ret[n].filesChanged) = Cardinality(changes)
                      /\ \A j \in DOMAIN ret[n].filesChanged :
                            LET line == lines[NthOf(changes, j)]
                            IN  ret[n].filesChanged[j] =
                                    [status |-> UpTo(line, "\t"),
                                     path |-> UpTo(After(line, "\t"), "\t")]

\* a file-change line precedes the first of two headers, and the last
\* commit, which no blank line follows, has a file attached
C12_Witness ==
    /\ pc = "listed"
    /\ env.git.kind = "completed"
    /\ Len(ret) = 2
    /\ IsFileChangeLine(PrintedLines[1])
    /\ ret[1].filesChanged = <<>>
    /\ Len(ret[2].filesChanged) = 1
    /\ PrintedLines[Len(PrintedLines)] # <<>>

(***************************************************************************)
(* Properties of the links the correlator leaves on both sides.            *)
(***************************************************************************)
\* the number of positions of seq that hold x
Occurrences(seq, x) == Cardinality({k \in DOMAIN seq : seq[k] = x})

\* no two messages share an id and no two commits share a short hash
DistinctKeys ==
    /\ \A i, j \in DOMAIN messages : messages[i].id = messages[j].id => i = j
    /\ \A i, j \in DOMAIN commits : commits[i].hash = commits[j].hash => i = j

\* C13: after match_commits_to_messages on messages with distinct ids and
\* commits with distinct short hashes, every commit c and message m agree on
\* their links (m's id occurs in c.relatedMessages as often as c's short
\* hash occurs in m.relatedCommits), c.relatedMessages and
\* c.relatedArtifacts have the same length, and c.relatedArtifacts[k] is an
\* artifact listed by the message c.relatedMessages[k].
C13_LinksBidirectionalAligned ==
    (pc = "matched" /\ DistinctKeys) =>
        \A ci \in DOMAIN commits :
            /\ \A mi \in DOMAIN messages :
                  Occurrences(commits[ci].relatedMessages, messages[mi].id)
                      = Occurrences(messages[mi].relatedCommits, commits[ci].hash)
            /\ Len(commits[ci].relatedMessages) = Len(commits[ci].relatedArtifacts)
            /\ \A k \in DOMAIN commits[ci].relatedMessages :
                  \E mi \in DOMAIN messages :
                      /\ messages[mi].id = commits[ci].relatedMessages[k]
                      /\ \E ai \in DOMAIN messages[mi].artifacts :
                            messages[mi].artifacts[ai] = commits[ci].relatedArtifacts[k]

\* a commit linked twice to one message, through two different artifacts
C13_Witness ==
    /\ pc = "matched"
    /\ DistinctKeys
    /\ \E ci \in DOMAIN commits, mi \in DOMAIN messages :
          /\ Occurrences(commits[ci].relatedMessages, messages[mi].id) = 2
          /\ Occurrences(messages[mi].relatedCommits, commits[ci].hash) = 2
          /\ commits[ci].relatedArtifacts[1] # commits[ci].relatedArtifacts[2]

(***************************************************************************)
(* Properties of the version lists.                                        *)
(***************************************************************************)
\* the path ends in ".png" or ".jpg"
HasImageExtension(path) ==
    /\ Len(path) >= 4
    /\ SubSeq(path, Len(path) - 3, Len(path))
          \in {<<".","p","n","g">>, <<".","j","p","g">>}

\* the positions f of commit k's file changes for which git show returned
\* the content of an image named name
RetrievedImages(k, name) ==
    {f \in DOMAIN commits[k].filesChanged :
        /\ HasImageExtension(commits[k].filesChanged[f].path)
        /\ PathName(commits[k].filesChanged[f].path) = name
        /\ env.store[<<commits[k].fullHash, commits[k].filesChanged[f].path>>] = "ok"}

\* the names of the files the commits changed
ChangedNames ==
    UNION {{PathName(commits[k].filesChanged[f].path) :
                f \in DOMAIN commits[k].filesChanged} : k \in DOMAIN commits}

\* the version list of name in the returned map (<<>>: no key)
VersionsOf(name) ==
    IF \E v \in DOMAIN image_versions : image_versions[v].name = name
    THEN image_versions[CHOOSE v \in DOMAIN image_versions :
                            image_versions[v].name = name].versions
    ELSE <<>>

\* the position in the commit list of the commit with this short hash
CommitOf(hash) == CHOOSE k \in DOMAIN commits : commits[k].hash = hash

\* C14: extract_versioned_artifacts records a version entry for a commit and
\* one of its file changes exactly when the path ends in an image extension
\* and git show returned its content with status zero; a failed retrieval
\* takes nothing from the files and commits after it; and the entries of
\* every name's version list are in the order of their commits.
C14_VersionPerRetrievedImage ==
    (pc = "extracted") =>
        /\ \A v \in DOMAIN image_versions :
              /\ image_versions[v].name \in ChangedNames
              /\ image_versions[v].versions # <<>>
              /\ \A e \in DOMAIN image_versions[v].versions :
                    \E k \in DOMAIN commits :
                        commits[k].hash = image_versions[v].versions[e].commitHash
        /\ \A name \in ChangedNames, k \in DOMAIN commits :
              Cardinality({e \in DOMAIN VersionsOf(name) :
                              VersionsOf(name)[e].commitHash = commits[k].hash})
                  = Cardinality(RetrievedImages(k, name))
        /\ \A name \in ChangedNames :
              \A d, e \in DOMAIN VersionsOf(name) :
                  d < e => CommitOf(VersionsOf(name)[d].commitHash)
                              <= CommitOf(VersionsOf(name)[e].commitHash)

\* a retrieval fails in the second commit before one that succeeds, and the
\* image of that name has a version from each of two commits
C14_Witness ==
    /\ pc = "extracted"
    /\ Len(commits) = 2
    /\ Len(commits[2].filesChanged) = 2
    /\ HasImageExtension(commits[2].filesChanged[1].path)
    /\ env.store[<<commits[2].fullHash, commits[2].filesChanged[1].path>>] # "ok"
    /\ \E name \in ChangedNames :
          /\ Len(VersionsOf(name)) = 2
          /\ VersionsOf(name)[1].commitHash = commits[1].hash
          /\ VersionsOf(name)[2].commitHash = commits[2].hash
          /\ RetrievedImages(2, name) = {2}

(***************************************************************************)
(* Specification of the artifact map: the parser loop takes one transcript *)
(* record after another, each an assistant record of one or two tool       *)
(* calls, up to MaxCalls tool calls in all.  self.artifacts lives as long  *)
(* as the builder, across records and session files.                       *)
(***************************************************************************)
MaxCalls == 3

StoreUuids == {<<"u","1">>, <<"u","2">>}

\* name and input of a tool call: Read, Write and Edit of two files, and a
\* call of another tool
StoreCalls ==
    {[name |-> <<"R","e","a","d">>, input |-> [file_path |-> <<"/","r","e","p","o","/","b","x","q","q",".","p","y">>]],
     [name |-> <<"W","r","i","t","e">>, input |-> [file_path |-> <<"/","r","e","p","o","/","b","x","q","q",".","p","y">>]],
     [name |-> <<"E","d","i","t">>, input |-> [file_path |-> <<"/","r","e","p","o","/","b","x","q","q",".","p","y">>]],
     [name |-> <<"R","e","a","d">>, input |-> [file_path |-> <<"/","r","e","p","o","/","e","k","r","l",".","p","y">>]],
     [name |-> <<"E","d","i","t">>, input |-> [file_path |-> <<"/","r","e","p","o","/","e","k","r","l",".","p","y">>]],
     [name |-> <<"B","a","s","h">>, input |-> [command |-> <<"l","s">>]]}

\* the record at line line_num: its k-th tool call has id toolu_<line_num><k>
StoreRecord(line_num, uuid, calls) ==
    [type |-> <<"a","s","s","i","s","t","a","n","t">>,
     uuid |-> uuid,
     timestamp |-> <<"2","0","2","4","-","0","1","-","0","1","T","1","0",":","0","0",":","0","0",".","0","0","0","Z">>,
     sessionId |-> <<"s","1">>,
     message |-> [content |->
        [k \in 1..Len(calls) |->
            [type |-> <<"t","o","o","l","_","u","s","e">>,
             id |-> <<"t","o","o","l","u","_">> \o Str(line_num) \o Str(k),
             name |-> calls[k].name,
             input |-> calls[k].input]]]]

InitStore ==
    /\ pc = "start"
    /\ config = DEFAULT_CONFIG
    /\ env = [lines |-> <<>>]
    /\ artifacts = <<>>
    /\ messages = <<>>
    /\ raised = ""
    /\ ret = <<>> /\ pages = <<>> /\ search_index = <<>> /\ commits = <<>>
    /\ image_versions = <<>> /\ links = <<>>
    /\ sessions = <<>> /\ images = <<>> /\ manifest = <<>> /\ output = <<>>

\* one pass of the loop of parse_transcript over the next record
ParseRecord ==
    /\ TotalItems(env.lines) < MaxCalls
    /\ \E n \in 1..Min(2, MaxCalls - TotalItems(env.lines)) :
       \E uuid \in StoreUuids, calls \in [1..n -> StoreCalls] :
          LET entry == StoreRecord(Len(env.lines) + 1, uuid, calls)
              st == ParseLine([messages |-> messages, artifacts |-> artifacts,
                               raised |-> ""],
                              entry, Len(env.lines) + 1, config)
          IN  /\ messages' = st.messages
              /\ artifacts' = st.artifacts
              /\ env' = [env EXCEPT !.lines = Append(@, entry)]
    /\ pc' = "parsing"
    /\ UNCHANGED <<config, pages, search_index, commits, image_versions,
                   ret, raised, links, sessions, images, manifest, output>>

NextStore == ParseRecord

SpecStore == InitStore /\ [][NextStore]_vars

(***************************************************************************)
(* Properties of the artifact map.                                         *)
(***************************************************************************)
\* the Read/Write/Edit calls with a file path among the records: each as
\* <<line, position in the record's content>>
FileCalls(lines) ==
    UNION {{<<l, k>> : k \in {j \in DOMAIN lines[l].message.content :
                /\ lines[l].message.content[j].name
                      \in {<<"R","e","a","d">>, <<"W","r","i","t","e">>, <<"E","d","i","t">>}
                /\ Get(lines[l].message.content[j].input, "file_path", <<>>) # <<>>}}
           : l \in DOMAIN lines}

\* the (message UUID, file path) pair of a call
PairOf(lines, c) ==
    <<lines[c[1]].uuid, lines[c[1]].message.content[c[2]].input.file_path>>

\* c comes before d in content order
Precedes(c, d) == c[1] < d[1] \/ (c[1] = d[1] /\ c[2] < d[2])

\* the artifact holds what the call c of the records wrote
HoldsCall(artifact, lines, c) ==
    LET item == lines[c[1]].message.content[c[2]]
    IN  /\ artifact.path = item.input.file_path
        /\ artifact.messageId = <<"m","s","g","_">> \o Take(lines[c[1]].uuid, 8)
        /\ artifact.operation = item.name
        /\ artifact.type = (CASE item.name = <<"E","d","i","t">> -> "file_edit"
                              [] item.name = <<"W","r","i","t","e">> -> "file_create"
                              [] OTHER -> "file_read")
        /\ artifact.toolCallId = item.id

\* C15: the artifact map is last-writer-wins per (message UUID, path): after
\* any sequence of records it holds exactly one artifact for each distinct
\* (message UUID, file path) pair with a Read/Write/Edit call, that artifact
\* carries the kind, operation and tool-call id of the last such call in
\* content order, and no pair's artifact has been removed by a later step.
C15_OneArtifactPerPair ==
    LET lines == env.lines
        calls == FileCalls(lines)
    IN  /\ Cardinality(DOMAIN artifacts)
              = Cardinality({PairOf(lines, c) : c \in calls})
        /\ \A c \in calls :
              (\A d \in calls :
                    PairOf(lines, d) = PairOf(lines, c) => ~Precedes(c, d))
                => \E id \in DOMAIN artifacts : HoldsCall(artifacts[id], lines, c)

(***************************************************************************)
(* Properties of the message sequence through the build.                   *)
(***************************************************************************)
\* the stages of build after all_messages.sort
AfterSort ==
    {"sorted", "listed", "matched", "images", "versions", "indexed",
     "paginated", "manifest", "done"}

\* a is the text b or comes before it
TextLeq(a, b) == a = b \/ TextLess(a, b)

\* p is a prefix of s
IsPrefix(p, s) == Len(p) <= Len(s) /\ SubSeq(s, 1, Len(p)) = p

\* the message without its relatedCommits
WithoutRelatedCommits(msg) == [msg EXCEPT !.relatedCommits = <<>>]

SortedByTimestamp ==
    \A k \in 1..(Len(messages) - 1) :
        TextLeq(messages[k].timestamp, messages[k + 1].timestamp)

\* every message keeps its position and its fields; relatedCommits only
\* grows at its end
MessagesKept ==
    /\ Len(messages') = Len(messages)
    /\ \A k \in DOMAIN messages :
          /\ WithoutRelatedCommits(messages'[k]) = WithoutRelatedCommits(messages[k])
          /\ IsPrefix(messages[k].relatedCommits, messages'[k].relatedCommits)

\* C16: in build, after the global sort the messages are non-decreasing by
\* timestamp, and every later stage (correlator, versioned-artifact
\* extractor, search indexer, paginator, manifest generator) leaves their
\* number and order and every field but relatedCommits unchanged; the
\* correlator only appends to relatedCommits.
C16_SortedThenFrozen ==
    /\ [](pc \in AfterSort => SortedByTimestamp)
    /\ [][(pc \in AfterSort) => MessagesKept]_vars

\* a finished build whose sort moved a record behind a later one of the
\* same session, and whose correlator linked a message to a commit
C16_Witness ==
    /\ pc = "done"
    /\ Len(messages) >= 4
    /\ \E j, k \in DOMAIN messages :
          /\ j < k
          /\ messages[j].sessionId = messages[k].sessionId
          /\ messages[j].lineNum > messages[k].lineNum
          /\ TextLess(messages[j].timestamp, messages[k].timestamp)
    /\ \E k \in DOMAIN messages : messages[k].relatedCommits # <<>>

(***************************************************************************)
(* Specification of session discovery: a project directory that is         *)
(* missing, or holds up to MaxListed index entries and transcript files in *)
(* all; the index is absent, undecodable, or lists entries, some without   *)
(* a created field or a fullPath.  Then get_all_sessions runs.             *)
(***************************************************************************)
MaxListed == 3

\* the dict d without key
Without(d, key) == [k \in DOMAIN d \ {key} |-> d[k]]

\* the entries an index can hold
IndexEntryPool ==
    {SessionEntry(i) : i \in DOMAIN SessionIds}
    \cup {Without(SessionEntry(i), "created") : i \in DOMAIN SessionIds}
    \cup {Without(SessionEntry(1), "fullPath")}

\* the number of index entries and transcript files of the project
ListedCount(project) ==
    Len(project.files)
        + (IF project.index # <<>> /\ IsDict(project.index[1])
           THEN Len(project.index[1].entries) ELSE 0)

InitSessions ==
    /\ pc = "start"
    /\ config = DEFAULT_CONFIG
    /\ \E index \in {<<>>, <<NotJson>>, <<[entries |-> <<>>]>>} :
          env = [project |-> [exists |-> TRUE, index |-> index, files |-> <<>>]]
    /\ sessions = <<>>
    /\ ret = <<>>
    /\ raised = ""
    /\ messages = <<>> /\ pages = <<>> /\ search_index = <<>> /\ artifacts = <<>>
    /\ commits = <<>> /\ image_versions = <<>> /\ links = <<>>
    /\ images = <<>> /\ manifest = <<>> /\ output = <<>>

\* a session is entered in sessions-index.json
IndexSession ==
    /\ pc = "start"
    /\ env.project.exists
    /\ env.project.index # <<>> /\ IsDict(env.project.index[1])
    /\ ListedCount(env.project) < MaxListed
    /\ \E entry \in IndexEntryPool :
          env' = [env EXCEPT !.project.index[1].entries = Append(@, entry)]
    /\ UNCHANGED <<pc, config, messages, pages, search_index, artifacts, commits,
                   image_versions, ret, raised, links,
                   sessions, images, manifest, output>>

\* a transcript file appears in the project directory; glob reports the
\* files in the order of their appearance
CreateSessionFile ==
    /\ pc = "start"
    /\ env.project.exists
    /\ ListedCount(env.project) < MaxListed
    /\ \E i \in DOMAIN SessionIds :
          /\ \A k \in DOMAIN env.project.files :
                env.project.files[k].stem # SessionIds[i]
          /\ env' = [env EXCEPT !.project.files = Append(@, SessionScan(i))]
    /\ UNCHANGED <<pc, config, messages, pages, search_index, artifacts, commits,
                   image_versions, ret, raised, links,
                   sessions, images, manifest, output>>

\* the project directory is removed with all it holds
RemoveProjectDir ==
    /\ pc = "start"
    /\ env.project.exists
    /\ env' = [env EXCEPT !.project = [exists |-> FALSE, index |-> <<>>, files |-> <<>>]]
    /\ UNCHANGED <<pc, config, messages, pages, search_index, artifacts, commits,
                   image_versions, ret, raised, links,
                   sessions, images, manifest, output>>

\* one call of get_all_sessions
GetAllSessions ==
    /\ pc = "start"
    /\ LET r == get_all_sessions(env.project)
       IN  /\ ret' = r.sessions
           /\ sessions' = r.sessions
           /\ raised' = r.raised
    /\ pc' = "discovered"
    /\ UNCHANGED <<config, messages, pages, search_index, artifacts, commits,
                   image_versions, env, links, images, manifest, output>>

NextSessions ==
    IndexSession \/ CreateSessionFile \/ RemoveProjectDir \/ GetAllSessions

SpecSessions == InitSessions /\ [][NextSessions]_vars

(***************************************************************************)
(* Properties of session discovery.                                        *)
(***************************************************************************)
\* the entries of the index, none when there is no index
IndexContent(project) ==
    IF project.index # <<>> /\ IsDict(project.index[1])
    THEN project.index[1].entries ELSE <<>>

\* the number of returned descriptors with this id
Returned(id) == Cardinality({k \in DOMAIN ret : ret[k].id = id})

\* C17: for any index content and any set of session files, get_all_sessions
\* returns a list ordered by creation timestamp ascending that holds every
\* index entry and every session file whose id is not in the index, and no
\* file whose id the index holds; with the project directory missing it
\* returns the empty list rather than failing.
C17_SessionsListedInOrder ==
    pc = "discovered" =>
        LET entries == IndexContent(env.project)
            files == env.project.files
            indexed == {Get(entries[e], "sessionId", <<>>) : e \in DOMAIN entries}
        IN  /\ raised = ""
            /\ ~env.project.exists => ret = <<>>
            /\ \A k \in 1..(Len(ret) - 1) :
                  /\ ret[k].created # <<>> /\ ret[k + 1].created # <<>>
                  /\ TextLeq(ret[k].created[1], ret[k + 1].created[1])
            /\ \A id \in indexed :
                  Returned(id) = Cardinality({e \in DOMAIN entries :
                                    Get(entries[e], "sessionId", <<>>) = id})
            /\ \A f \in DOMAIN files :
                  files[f].stem \notin indexed => Returned(files[f].stem) = 1
            /\ Len(ret) = Len(entries)
                  + Cardinality({f \in DOMAIN files : files[f].stem \notin indexed})

(***************************************************************************)
(* Properties shared by the search index, the pages and the manifest.      *)
(***************************************************************************)
\* the pages whose range [startIndex, endIndex) holds position i
PagesHolding(i) ==
    {p \in DOMAIN pages : pages[p].startIndex <= i /\ i < pages[p].endIndex}

\* C18: the search index and the paginator agree on page placement: the
\* documentMap has exactly one entry per position 0..N-1 of the message
\* sequence, the page it records for position i is the number of the page
\* of paginate_messages whose range [startIndex, endIndex) holds i, and the
\* manifest's totalPages is the number of pages produced.
C18_IndexAgreesWithPages ==
    pc \in {"manifest", "done"} =>
        /\ DOMAIN search_index.documentMap = 0..(Len(messages) - 1)
        /\ \A i \in 0..(Len(messages) - 1) :
              /\ Cardinality(PagesHolding(i)) = 1
              /\ \A p \in PagesHolding(i) :
                    search_index.documentMap[i].page = pages[p].page
        /\ manifest.pagination.totalPages = Len(pages)

\* four messages on pages of three: the second page is short and holds the
\* last message
C18_Witness ==
    /\ pc = "done"
    /\ config.messages_per_page = 3
    /\ Len(messages) = 4
    /\ Len(pages) = 2
    /\ pages[2].startIndex = 3 /\ pages[2].endIndex = 4
    /\ search_index.documentMap[3].page = 2
    /\ search_index.documentMap[2].page = 1
    /\ manifest.pagination.totalPages = 2

====
